---------------------------- MODULE Spec2Model ----------------------------
(***************************************************************************)
(* A model of the weight-based effect-estimation core of causallib:        *)
(*   - the validation gate      (causallib/validation/checks.py)           *)
(*   - propensity clipping      (causallib/propensity/computation.py)      *)
(*   - inverse-probability weights (same file)                             *)
(*   - effect calculation       (causallib/effects/calculation.py)         *)
(*   - the learner boundary and the estimator life cycle                   *)
(*                              (causallib/estimation/base_weight.py)      *)
(*   - the diagnostic reports   (causallib/diagnostics/reports.py)         *)
(*   - summary() and the estimate operations of an estimator               *)
(*                              (causallib/estimation/base_estimator.py)   *)
(*   - the warning functions and the warning accumulator, used by one      *)
(*     thread and by several    (causallib/diagnostics/warnings.py)        *)
(* The first four and the reports are pure functions of their arguments;   *)
(* the specification of each draws the arguments in Init and applies the   *)
(* function in one action.  An estimator is constructed, fitted, checked   *)
(* and queried step by step; a call on the accumulator by a thread is the  *)
(* steps between which another thread may run.                             *)
(* Numbers are exact rationals extended with inf and nan, the values that  *)
(* IEEE division produces for x/0 and 0*inf.                               *)
(***************************************************************************)
EXTENDS Integers, Sequences, FiniteSets, TLC

VARIABLES
    pc,                   \* the entry point about to be called, then "done" or "asked"
    call,                 \* the function that was invoked ("none" before)
    X, a, y,              \* arguments of check_X_a / check_X_a_y
    outcome,              \* what the gate did: returned value or raised error
    emitted,              \* warnings issued through warnings.warn, in order
    propensity_matrix,    \* argument of clip_propensity_scores / compute_propensity_weights
    clip_min, clip_max,   \* arguments of clip_propensity_scores
    clip_out,             \* result of clip_propensity_scores on propensity_matrix
    reclip_out,           \* result of clipping clip_out.clipped again
    treatment_assignment, \* arguments of compute_propensity_weights
    treatment_values,
    use_stabilized,
    treatment_prevalence,
    weights,              \* result of compute_propensity_weights
    outcome_1, outcome_2, \* arguments of calculate_effect
    effect_types,
    effect,               \* result of calculate_effect
    learner,              \* the wrapped learner: its capabilities and fitted markers
    estimator,            \* the estimator instance: its attributes
    extracted,            \* result of extract_propensity_scores(learner, X)
    fitted_check,         \* result of the last check_is_fitted(estimator)
    propensity_scores,    \* argument of compute_overlap_diagnostic
    weight_distribution,  \* result of compute_weight_distribution(weights)
    overlap_diagnostic,   \* result of compute_overlap_diagnostic
    estimate,             \* the last estimate operation called on the estimator
    summary_out,          \* result of the last summary() of the estimator
    heap,                 \* the list objects of the process: heap[r] is the content of list r
    warning_accumulator,  \* the list the module global _warning_accumulator is bound to
    held,                 \* the lists callers were handed by get_accumulated_warnings and summary
    log,                  \* the messages whose append completed since the last completed clear
    threads               \* position of every thread inside an accumulator call

vars == <<pc, call, X, a, y, outcome, emitted, propensity_matrix, clip_min,
          clip_max, clip_out, reclip_out, treatment_assignment,
          treatment_values, use_stabilized, treatment_prevalence, weights,
          outcome_1, outcome_2, effect_types, effect,
          learner, estimator, extracted, fitted_check,
          propensity_scores, weight_distribution, overlap_diagnostic,
          estimate, summary_out,
          heap, warning_accumulator, held, log, threads>>

gateVars == <<X, a, y, outcome, emitted>>
clipVars == <<clip_min, clip_max, clip_out, reclip_out>>
weightVars == <<treatment_assignment, treatment_values, use_stabilized,
                treatment_prevalence, weights>>
effectVars == <<outcome_1, outcome_2, effect_types, effect>>
estimatorVars == <<learner, estimator, extracted, fitted_check>>
reportVars == <<propensity_scores, weight_distribution, overlap_diagnostic>>
queryVars == <<estimate, summary_out>>
accumulatorVars == <<heap, warning_accumulator, held, log, threads>>

----------------------------------------------------------------------------
(* Bounds of the model *)

\* longest sample index drawn for X
MaxLen == 3
\* the grid of matrix entries and bounds in clipping is 0, 1/(2*HalfSteps),
\* ..., 1; 1/2 is always on it
HalfSteps == 2
\* most samples (rows) of a propensity matrix given to compute_propensity_weights
MaxRows == 2
\* most samples (rows) of a propensity matrix given to clip_propensity_scores
MaxClipRows == 1
\* most samples of a per-sample outcome vector given to calculate_effect
MaxEffectLen == 2
\* most samples of the data an estimator is fitted on
MaxFitLen == 2
\* most calls of fit on one estimator instance
MaxFitCalls == 2
\* most samples given to compute_overlap_diagnostic
MaxScores == 3
\* most weights of a freely drawn vector given to compute_weight_distribution
MaxWeights == 4
\* number of unit weights in the long weight vector that holds one outlier
Bulk == 10
\* most calls made on the warning accumulator in one run
MaxOps == 5
\* number of threads using the warning accumulator
NThreads == 2
\* most warnings issued by the warning functions in one run
MaxWarnings == 2

----------------------------------------------------------------------------
(* Sequences *)

Range(s) == {s[i] : i \in 1..Len(s)}

Reverse(s) == [i \in 1..Len(s) |-> s[Len(s) + 1 - i]]

Front(s) == SubSeq(s, 1, Len(s) - 1)

----------------------------------------------------------------------------
(* Validation gate: containers *)

\* a missing entry (NaN / None) of a Series
NA == "NaN"

None == [kind |-> "None", index |-> <<>>, values |-> <<>>]

\* pd.DataFrame: only its row index matters to the gate
DataFrame(idx) == [kind |-> "DataFrame", index |-> idx, values |-> <<>>]

\* pd.Series: index and values, position by position
Series(idx, vals) == [kind |-> "Series", index |-> idx, values |-> vals]

\* any object that is neither a DataFrame nor a Series (a list, an ndarray)
Other(n) == [kind |-> "other", index |-> [i \in 1..n |-> i - 1], values |-> <<>>]

\* len(obj)
PyLen(obj) == Len(obj.index)


\* pandas operations the gate uses ------------------------------------------

\* Index.equals(other): same length, same identifiers, same order.
\* Index equality that compares the identifier sets only (order ignored):
IndexEqualsAsSets(i1, i2) == Len(i1) = Len(i2) /\ Range(i1) = Range(i2)

IndexEquals(i1, i2) == i1 = i2

\* A missing-entry count that skips the last position:
IsNullSumSkipLast(vals) == Cardinality({i \in 1..(Len(vals) - 1) : vals[i] = NA})

\* Series.isnull().sum()
IsNullSum(vals) == Cardinality({i \in 1..Len(vals) : vals[i] = NA})

\* Series.isnull().any()
IsNullAny(vals) == \E i \in 1..Len(vals) : vals[i] = NA

\* Series.nunique(): distinct non-missing values
NUnique(vals) == Cardinality(Range(vals) \ {NA})

\* outcomes of a call -----------------------------------------------------

NoOutcome == [status |-> "none", exc |-> "none", at |-> "none",
              n_missing |-> 0, value |-> <<>>]

Returned(v) == [status |-> "returned", exc |-> "none", at |-> "none",
                n_missing |-> 0, value |-> v]

\* `at` names the check that failed, `n_missing` the count its message states
Raised(e, where, n) == [status |-> "raised", exc |-> e, at |-> where,
                        n_missing |-> n, value |-> <<>>]

\* outcome y is rejected when more than this percentage of it is missing
MissingPctLimit == 50

\* n_missing / len(y) * 100 > 50, as an exact comparison of rationals
\* (with len(y) = 0 the quotient is nan and every comparison is false)
PctMissingExceeds(n_missing, n) == n > 0 /\ n_missing * 100 > MissingPctLimit * n

\* check_X_a(X, a) -----------------------------------------------------------
check_X_a(pX, pa) ==
    IF pX.kind # "DataFrame"
      THEN Raised("CausallibValidationError", "X_type", 0)
    ELSE IF pa.kind # "Series"
      THEN Raised("CausallibValidationError", "a_type", 0)
    ELSE IF PyLen(pX) # PyLen(pa)
      THEN Raised("DataAlignmentError", "X_a_length", 0)
    ELSE IF ~IndexEquals(pX.index, pa.index)
      THEN Raised("DataAlignmentError", "X_a_index", 0)
    ELSE IF IsNullAny(pa.values)
      THEN Raised("CausallibValidationError", "a_missing", IsNullSum(pa.values))
    ELSE Returned(<<pX, pa>>)

\* the warning check_X_a_y issues for a tolerated amount of missing outcome
MissingOutcomeWarning(n) == [category |-> "UserWarning", n_missing |-> n]

\* check_X_a_y(X, a, y): the outcome and the warnings issued, in order
check_X_a_y(pX, pa, py) ==
    LET xa == check_X_a(pX, pa)
        n_missing == IsNullSum(py.values)
    IN  IF xa.status = "raised"
          THEN [outcome |-> xa, emitted |-> <<>>]
        ELSE IF py = None
          THEN [outcome |-> Returned(<<pX, pa, py>>), emitted |-> <<>>]
        ELSE IF py.kind # "Series"
          THEN [outcome |-> Raised("CausallibValidationError", "y_type", 0),
                emitted |-> <<>>]
        ELSE IF PyLen(py) # PyLen(pX)
          THEN [outcome |-> Raised("DataAlignmentError", "X_y_length", 0),
                emitted |-> <<>>]
        ELSE IF ~IndexEquals(py.index, pX.index)
          THEN [outcome |-> Raised("DataAlignmentError", "X_y_index", 0),
                emitted |-> <<>>]
        ELSE IF n_missing > 0 /\ PctMissingExceeds(n_missing, PyLen(py))
          THEN [outcome |-> Raised("CausallibValidationError", "y_missing", n_missing),
                emitted |-> <<>>]
        ELSE IF n_missing > 0
          THEN [outcome |-> Returned(<<pX, pa, py>>),
                emitted |-> <<MissingOutcomeWarning(n_missing)>>]
        ELSE [outcome |-> Returned(<<pX, pa, py>>), emitted |-> <<>>]

\* check_consistent_treatment_vector(a): a separate public check; neither
\* check_X_a nor check_X_a_y calls it.  (Its last test, for infinite values
\* of a numeric vector, has no case here: the levels drawn are finite.)
check_consistent_treatment_vector(pa) ==
    IF IsNullAny(pa.values)
      THEN Raised("CausallibValidationError", "a_missing", IsNullSum(pa.values))
    ELSE IF NUnique(pa.values) < 2
      THEN Raised("CausallibValidationError", "a_degenerate", 0)
    ELSE Returned(<<>>)

----------------------------------------------------------------------------
(* Validation gate: the arguments drawn *)

\* the default 0-based index of n samples
RangeIndex(n) == [i \in 1..n |-> i - 1]

\* a non-sorted, non-0-based index of n samples
DescendingIndex(n) == [i \in 1..n |-> 5 + n - i]

SampleIndexes == {RangeIndex(n) : n \in 0..MaxLen} \cup {DescendingIndex(n) : n \in 0..MaxLen}

\* idx itself and the ways another container's index can differ from it:
\* permuted, other identifiers, one sample fewer, one sample more
IndexVariants(idx) ==
    {idx, Reverse(idx), [i \in 1..Len(idx) |-> idx[i] + 5], Append(idx, 99)}
      \cup (IF Len(idx) > 0 THEN {Front(idx)} ELSE {})

TreatmentEntries == {"ctl", "trt", NA}
OutcomeEntries == {"obs", NA}

GateX == {DataFrame(idx) : idx \in SampleIndexes} \cup {Other(2)}

GateA(pX) ==
    UNION {{Series(idx, vals) : vals \in [1..Len(idx) -> TreatmentEntries]} :
             idx \in IndexVariants(pX.index)}
      \cup {Other(PyLen(pX))}

GateY(pX) ==
    UNION {{Series(idx, vals) : vals \in [1..Len(idx) -> OutcomeEntries]} :
             idx \in IndexVariants(pX.index)}
      \cup {None, Other(PyLen(pX))}

----------------------------------------------------------------------------
(* Defaults of the variables a specification does not use *)

NoMatrix == [index |-> <<>>, columns |-> <<>>, data |-> <<>>]
NoNumber == [k |-> "none", n |-> 0, d |-> 1]
NoClip == [status |-> "none", exc |-> "none", steps |-> <<>>, clipped |-> NoMatrix,
           n_clipped_min |-> 0, n_clipped_max |-> 0, pct_clipped |-> NoNumber]
NoWeights == [status |-> "none", exc |-> "none", shape |-> "none",
              index |-> <<>>, columns |-> <<>>, data |-> <<>>]

NoPrevalence == [given |-> FALSE, of |-> <<>>]

GateIdle ==
    /\ X = None /\ a = None /\ y = None
    /\ outcome = NoOutcome /\ emitted = <<>>

ClipIdle ==
    /\ clip_min = NoNumber /\ clip_max = NoNumber
    /\ clip_out = NoClip /\ reclip_out = NoClip

WeightsIdle ==
    /\ treatment_assignment = None
    /\ treatment_values = [form |-> "None", levels |-> <<>>]
    /\ use_stabilized = FALSE
    /\ treatment_prevalence = NoPrevalence
    /\ weights = NoWeights

NoEffect == [status |-> "none", exc |-> "none", stage |-> "none", named |-> "none",
             cause |-> "none", culprit |-> "none", offending |-> {}, observed |-> <<>>,
             n_zero |-> 0, shape |-> "none", entries |-> "none", index |-> <<>>,
             columns |-> <<>>, data |-> <<>>]

NoEffectTypes == [form |-> "none", names |-> <<>>]

EffectIdle ==
    /\ outcome_1 = None /\ outcome_2 = None
    /\ effect_types = NoEffectTypes
    /\ effect = NoEffect

\* a name that is not an attribute of the object
Absent == "absent"

\* a learner: its two prediction capabilities, whether it was trained, the
\* attributes training gives it (classes_, and the names in sets_marks), the
\* attributes it has now (classes_, marks), and what its class name hints at
NoLearner == [predict_proba |-> FALSE, decision_function |-> FALSE,
              sets_classes |-> FALSE, fitted |-> FALSE, classes_ |-> Absent,
              sets_marks |-> {}, marks |-> {}, hint |-> "none"]
\* an estimator: attrs are the names of its instance attributes
NoEstimator == [built |-> "none", exc |-> "none", cls |-> "none", attrs |-> {},
                learner_ |-> Absent,
                treatment_values_ |-> <<>>, n_samples_ |-> 0, fits |-> 0,
                fit_completed |-> FALSE]
NoExtract == [status |-> "none", exc |-> "none", used |-> "none",
              index |-> <<>>, columns |-> <<>>]
NoCheck == [status |-> "none", exc |-> "none", missing |-> <<>>, on |-> NoEstimator]

EstimatorIdle ==
    /\ learner = NoLearner /\ estimator = NoEstimator
    /\ extracted = NoExtract /\ fitted_check = NoCheck

\* a list as a caller holds it: a copy of its own (items), or the very list
\* object ref of the process (shared)
NoList == [shared |-> FALSE, ref |-> 0, items |-> <<>>]

\* an estimate operation: how it ended, what the error names (an aggregator,
\* the missing markers), whether anything was computed, and the estimator
\* as it was when the operation looked at it
NoEstimate == [op |-> "none", agg |-> "none", status |-> "none", exc |-> "none",
               named |-> "none", missing |-> <<>>, computed |-> FALSE,
               outcomes |-> <<>>, effect |-> NoEffect, on |-> NoEstimator]
NoSummary == [status |-> "none", is_fitted |-> FALSE, treatment_values |-> <<>>,
              n_samples |-> 0, has_treatment_values |-> FALSE, has_n_samples |-> FALSE,
              outcome_type |-> "none", warnings |-> NoList, on |-> NoEstimator]

QueriesIdle == estimate = NoEstimate /\ summary_out = NoSummary

\* the accumulator as the module leaves it when loaded: the global is bound
\* to one empty list; nobody holds a list and no thread is inside a call
AccumulatorIdle ==
    /\ heap = << <<>> >> /\ warning_accumulator = 1
    /\ held = <<>> /\ log = <<>> /\ threads = <<>>

NoReport == [status |-> "none", exc |-> "none"]

ReportsIdle ==
    /\ propensity_scores = None
    /\ weight_distribution = NoReport /\ overlap_diagnostic = NoReport

----------------------------------------------------------------------------
(* Specification of the validation gate *)

InitGate ==
    /\ pc = "gate" /\ call = "none"
    /\ X \in GateX
    /\ a \in GateA(X)
    /\ y \in GateY(X)
    /\ outcome = NoOutcome /\ emitted = <<>>
    /\ propensity_matrix = NoMatrix
    /\ ClipIdle /\ WeightsIdle /\ EffectIdle /\ EstimatorIdle
    /\ ReportsIdle
    /\ QueriesIdle
    /\ AccumulatorIdle

Call_check_X_a ==
    /\ pc = "gate"
    /\ outcome' = check_X_a(X, a)
    /\ call' = "check_X_a" /\ pc' = "done"
    /\ UNCHANGED <<X, a, y, emitted, propensity_matrix, clipVars, weightVars,
                   effectVars, estimatorVars, reportVars, queryVars, accumulatorVars>>

Call_check_X_a_y ==
    /\ pc = "gate"
    /\ outcome' = check_X_a_y(X, a, y).outcome
    /\ emitted' = emitted \o check_X_a_y(X, a, y).emitted
    /\ call' = "check_X_a_y" /\ pc' = "done"
    /\ UNCHANGED <<X, a, y, propensity_matrix, clipVars, weightVars,
                   effectVars, estimatorVars, reportVars, queryVars, accumulatorVars>>

Call_check_consistent_treatment_vector ==
    /\ pc = "gate"
    /\ a.kind = "Series"
    /\ outcome' = check_consistent_treatment_vector(a)
    /\ call' = "check_consistent_treatment_vector" /\ pc' = "done"
    /\ UNCHANGED <<X, a, y, emitted, propensity_matrix, clipVars, weightVars,
                   effectVars, estimatorVars, reportVars, queryVars, accumulatorVars>>

NextGate ==
    \/ Call_check_X_a
    \/ Call_check_X_a_y
    \/ Call_check_consistent_treatment_vector

SpecGate == InitGate /\ [][NextGate]_vars

----------------------------------------------------------------------------
(* Properties of the validation gate (checked under SpecGate) *)

GateCalled == call \in {"check_X_a", "check_X_a_y"}

\* the arguments have the container types the gate expects
GateTyped == X.kind = "DataFrame" /\ a.kind = "Series" /\ y.kind \in {"None", "Series"}

\* two containers carry the same identifiers at the same positions
SameSamples(c1, c2) ==
    /\ Len(c1.index) = Len(c2.index)
    /\ \A i \in 1..Len(c1.index) : c1.index[i] = c2.index[i]

HasMissing(c) == \E i \in 1..Len(c.values) : c.values[i] = "NaN"

MissingCount(c) == Cardinality({i \in 1..Len(c.values) : c.values[i] = "NaN"})

\* some pair of the containers the call was given is not aligned
SomePairDiverges ==
    \/ ~SameSamples(X, a)
    \/ call = "check_X_a_y" /\ y # None /\ (~SameSamples(X, y) \/ ~SameSamples(a, y))

AlignmentErrorRaised == outcome.status = "raised" /\ outcome.exc = "DataAlignmentError"

\* C1 as stated: whenever two of the supplied containers differ in length or
\* in the content or order of their sample identifiers, check_X_a and
\* check_X_a_y fail with an alignment error; a call returns only when all
\* index sequences are equal element by element.
C1_AlignmentErrorWheneverDiverging ==
    (GateCalled /\ GateTyped) =>
        /\ SomePairDiverges => AlignmentErrorRaised
        /\ outcome.status = "returned" => ~SomePairDiverges

\* C1 as amended: a diverging pair always makes the call fail, and with an
\* alignment error except in one case: check_X_a_y given aligned X and a, a
\* missing entry in a and a diverging y raises the missing-treatment error,
\* because check_X_a runs to its end before y is looked at.  A call returns
\* only when all index sequences are equal element by element.
C1_Alignment ==
    (GateCalled /\ GateTyped) =>
        /\ SomePairDiverges => outcome.status = "raised"
        /\ (SomePairDiverges /\ ~(SameSamples(X, a) /\ HasMissing(a)))
              => AlignmentErrorRaised
        /\ (SomePairDiverges /\ SameSamples(X, a) /\ HasMissing(a))
              => (outcome.exc = "CausallibValidationError" /\ outcome.at = "a_missing")
        /\ outcome.status = "returned" => ~SomePairDiverges

\* C1 witness: the same identifiers in another order, lengths equal, rejected
C1_Witness ==
    /\ call = "check_X_a" /\ GateTyped
    /\ Len(X.index) = Len(a.index) /\ Len(X.index) >= 2
    /\ Range(X.index) = Range(a.index)
    /\ X.index # a.index /\ ~HasMissing(a)
    /\ AlignmentErrorRaised /\ outcome.at = "X_a_index"

\* C2: the gate fails whenever a has fewer than 2 distinct levels; no (X, a)
\* with a single observed level is returned as valid.  (Stated for an a with
\* at least one sample, so that the case met is a single observed level.)
C2_DegenerateTreatmentRejected ==
    (/\ GateCalled /\ a.kind = "Series" /\ Len(a.values) >= 1
     /\ Cardinality(Range(a.values) \ {"NaN"}) < 2)
        => outcome.status = "raised"

\* the structural checks of check_X_a_y all passed and y was supplied
OutcomeInspected ==
    /\ call = "check_X_a_y" /\ GateTyped /\ y # None
    /\ SameSamples(X, a) /\ SameSamples(X, y) /\ ~HasMissing(a)

\* C3: with missing entries in y and the structural checks passed,
\* check_X_a_y fails if more than half of y is missing, and otherwise (exactly
\* half included) issues exactly one warning of category MissingValuesWarning
\* and returns (X, a, y); with no missing entry it issues no warning; no call
\* both warns and fails.
C3_MissingOutcomePolicy ==
    /\ (OutcomeInspected /\ HasMissing(y)) =>
          IF 2 * MissingCount(y) > Len(y.values)
            THEN outcome.status = "raised" /\ emitted = <<>>
            ELSE /\ outcome = Returned(<<X, a, y>>)
                 /\ Len(emitted) = 1
                 /\ emitted[1].category = "MissingValuesWarning"
    /\ (call = "check_X_a_y" /\ ~HasMissing(y)) => emitted = <<>>
    /\ ~(outcome.status = "raised" /\ emitted # <<>>)

\* C4: check_X_a rejects every a with a missing entry (X and a passing the
\* type, length and index checks) with an error that states the number of
\* missing entries; no such a is ever returned as valid.
C4_MissingTreatmentRejected ==
    /\ (call = "check_X_a" /\ GateTyped /\ SameSamples(X, a) /\ HasMissing(a)) =>
          /\ outcome.status = "raised"
          /\ outcome.at = "a_missing"
          /\ outcome.n_missing = MissingCount(a)
    /\ (GateCalled /\ a.kind = "Series" /\ HasMissing(a)) => outcome.status # "returned"

\* C4 witness: an aligned a whose last two entries are missing is rejected
C4_Witness ==
    /\ call = "check_X_a" /\ GateTyped /\ SameSamples(X, a)
    /\ Len(a.values) >= 3
    /\ a.values[Len(a.values)] = "NaN" /\ a.values[Len(a.values) - 1] = "NaN"
    /\ outcome.status = "raised" /\ outcome.n_missing = 2

----------------------------------------------------------------------------
(* Numbers: exact rationals n/d in lowest terms (d > 0), inf and nan *)

RECURSIVE Gcd(_, _)
Gcd(m, n) == IF n = 0 THEN m ELSE Gcd(n, m % n)

Abs(m) == IF m < 0 THEN 0 - m ELSE m

\* the rational n/d, d # 0
Rat(n, d) ==
    LET g == Gcd(Abs(n), Abs(d))
        sgn == IF d < 0 THEN 0 - 1 ELSE 1
    IN  [k |-> "fin", n |-> sgn * (n \div g), d |-> sgn * (d \div g)]

Inf == [k |-> "inf", n |-> 1, d |-> 0]
NaN == [k |-> "nan", n |-> 0, d |-> 0]

IsFinite(u) == u.k = "fin"

\* u < v and u <= v on finite numbers; false when either side is nan
Less(u, v) == IsFinite(u) /\ IsFinite(v) /\ u.n * v.d < v.n * u.d
LessEq(u, v) == IsFinite(u) /\ IsFinite(v) /\ u.n * v.d <= v.n * u.d

\* float division m / n of two counts: nan for 0/0, inf for m/0
DivCounts(m, n) == IF n # 0 THEN Rat(m, n) ELSE IF m = 0 THEN NaN ELSE Inf

\* the probabilities drawn: 0, 1/(2*HalfSteps), ..., 1
ProbGrid == {Rat(i, 2 * HalfSteps) : i \in 0..(2 * HalfSteps)}

\* the clip bounds drawn: the grid, one step below 0 and one step above 1
BoundGrid == {Rat(i, 2 * HalfSteps) : i \in (0 - 1)..(2 * HalfSteps + 1)}

----------------------------------------------------------------------------
(* Propensity matrices: row identifiers, column labels, rows of entries *)

Matrix(idx, cols, rows) == [index |-> idx, columns |-> cols, data |-> rows]

\* DataFrame.size
Size(M) == Len(M.data) * Len(M.columns)

\* the (row, column) positions of M
Positions(M) == (1..Len(M.data)) \X (1..Len(M.columns))

----------------------------------------------------------------------------
(* clip_propensity_scores *)

\* _validate_clip_bounds without its last test (clip_min < clip_max):
BoundsInRangeOnly(lo, hi) ==
    /\ lo # NoNumber => (LessEq(Rat(0, 1), lo) /\ LessEq(lo, Rat(1, 2)))
    /\ hi # NoNumber => (LessEq(Rat(1, 2), hi) /\ LessEq(hi, Rat(1, 1)))

\* _validate_clip_bounds(clip_min, clip_max) raises nothing
ValidClipBounds(lo, hi) ==
    /\ lo # NoNumber => (LessEq(Rat(0, 1), lo) /\ LessEq(lo, Rat(1, 2)))
    /\ hi # NoNumber => (LessEq(Rat(1, 2), hi) /\ LessEq(hi, Rat(1, 1)))
    /\ (lo # NoNumber /\ hi # NoNumber) => ~LessEq(hi, lo)

\* clipped[clipped < clip_min] = clip_min
ClipBelow(M, lo) ==
    [M EXCEPT !.data = [i \in 1..Len(M.data) |->
        [j \in 1..Len(M.columns) |-> IF Less(M.data[i][j], lo) THEN lo ELSE M.data[i][j]]]]

\* clipped[clipped > clip_max] = clip_max
ClipAbove(M, hi) ==
    [M EXCEPT !.data = [i \in 1..Len(M.data) |->
        [j \in 1..Len(M.columns) |-> IF Less(hi, M.data[i][j]) THEN hi ELSE M.data[i][j]]]]

\* the count of entries below clip_min, taken with <= in place of <:
CountBelowInclusive(M, lo) == Cardinality({p \in Positions(M) : LessEq(M.data[p[1]][p[2]], lo)})

\* (clipped < clip_min).sum().sum()
CountBelow(M, lo) == Cardinality({p \in Positions(M) : Less(M.data[p[1]][p[2]], lo)})

\* (clipped > clip_max).sum().sum()
CountAbove(M, hi) == Cardinality({p \in Positions(M) : Less(hi, M.data[p[1]][p[2]])})

ClipRaised(e, did) ==
    [status |-> "raised", exc |-> e, steps |-> did, clipped |-> NoMatrix,
     n_clipped_min |-> 0, n_clipped_max |-> 0, pct_clipped |-> NoNumber]

\* clip_propensity_scores(propensity_matrix, clip_min, clip_max); `steps`
\* lists the statements the call executed.  With an empty matrix n_total is
\* 0: the percentage is 0/0, a ZeroDivisionError between Python ints (no
\* bound given) and nan when a count is a numpy integer (a bound given).
clip_propensity_scores(M, lo, hi) ==
    IF ~ValidClipBounds(lo, hi)
      THEN ClipRaised("ValueError", <<"validate">>)
    ELSE
      LET n_total == Size(M)
          n_clipped_min == IF lo # NoNumber THEN CountBelow(M, lo) ELSE 0
          afterMin == IF lo # NoNumber THEN ClipBelow(M, lo) ELSE M
          n_clipped_max == IF hi # NoNumber THEN CountAbove(afterMin, hi) ELSE 0
          afterMax == IF hi # NoNumber THEN ClipAbove(afterMin, hi) ELSE afterMin
          n_clipped_total == n_clipped_min + n_clipped_max
          pct == DivCounts(n_clipped_total * 100, n_total)
      IN  IF n_total = 0 /\ lo = NoNumber /\ hi = NoNumber
            THEN ClipRaised("ZeroDivisionError", <<"validate", "copy", "stats">>)
            ELSE [status |-> "returned", exc |-> "none",
                  steps |-> <<"validate", "copy", "clip", "stats">>,
                  clipped |-> afterMax,
                  n_clipped_min |-> n_clipped_min,
                  n_clipped_max |-> n_clipped_max,
                  pct_clipped |-> pct]

----------------------------------------------------------------------------
(* Specification of clipping: clip a matrix, then clip the result again *)

\* a treatment level: its Python type and its value
Label(ty, v) == [ty |-> ty, v |-> v]

\* the columns of a propensity matrix: two levels, neither sorted nor 0-based
TreatmentColumns(ty) == <<Label(ty, 7), Label(ty, 3)>>

ClipMatrices ==
    UNION {{Matrix(idx, TreatmentColumns("int"), rows) :
              rows \in [1..Len(idx) -> [1..2 -> ProbGrid]]} :
             idx \in {RangeIndex(n) : n \in 0..MaxClipRows}
                       \cup {DescendingIndex(n) : n \in 0..MaxClipRows}}

InitClip ==
    /\ pc = "clip" /\ call = "none"
    /\ propensity_matrix \in ClipMatrices
    /\ clip_min \in BoundGrid \cup {NoNumber}
    /\ clip_max \in BoundGrid \cup {NoNumber}
    /\ clip_out = NoClip /\ reclip_out = NoClip
    /\ GateIdle /\ WeightsIdle /\ EffectIdle /\ EstimatorIdle
    /\ ReportsIdle
    /\ QueriesIdle
    /\ AccumulatorIdle

Call_clip_propensity_scores ==
    /\ pc = "clip"
    /\ clip_out' = clip_propensity_scores(propensity_matrix, clip_min, clip_max)
    /\ call' = "clip_propensity_scores" /\ pc' = "clipped"
    /\ UNCHANGED <<propensity_matrix, clip_min, clip_max, reclip_out, gateVars, weightVars,
                   effectVars, estimatorVars, reportVars, queryVars, accumulatorVars>>

\* the caller passes the clipped matrix it was returned to a second call
Call_clip_propensity_scores_again ==
    /\ pc = "clipped" /\ clip_out.status = "returned"
    /\ reclip_out' = clip_propensity_scores(clip_out.clipped, clip_min, clip_max)
    /\ pc' = "done"
    /\ UNCHANGED <<call, propensity_matrix, clip_min, clip_max, clip_out, gateVars, weightVars,
                   effectVars, estimatorVars, reportVars, queryVars, accumulatorVars>>

NextClip ==
    \/ Call_clip_propensity_scores
    \/ Call_clip_propensity_scores_again

SpecClip == InitClip /\ [][NextClip]_vars

----------------------------------------------------------------------------
(* Properties of clipping (checked under SpecClip) *)

BoundsAcceptable ==
    /\ clip_min.k = "none" \/ (0 <= clip_min.n /\ 2 * clip_min.n <= clip_min.d)
    /\ clip_max.k = "none" \/ (clip_max.d <= 2 * clip_max.n /\ clip_max.n <= clip_max.d)
    /\ clip_min.k = "none" \/ clip_max.k = "none"
         \/ clip_min.n * clip_max.d < clip_max.n * clip_min.d

\* C10: clip_propensity_scores accepts (clip_min, clip_max) iff each bound
\* given is in its range (clip_min in [0, 0.5], clip_max in [0.5, 1]) and
\* clip_min < clip_max when both are given; for every other pair, 0.5 and 0.5
\* included, it raises a range error before it copies or reads the matrix and
\* returns nothing.
C10_ClipBoundsValidated ==
    (pc = "clipped") =>
        /\ BoundsAcceptable <=> ~(clip_out.status = "raised" /\ clip_out.exc = "ValueError")
        /\ ~BoundsAcceptable =>
              /\ clip_out.steps = <<"validate">>
              /\ clip_out.clipped = NoMatrix

\* C10 witness: both bounds 0.5, each in its own range, rejected
C10_Witness ==
    /\ pc = "clipped"
    /\ clip_min = [k |-> "fin", n |-> 1, d |-> 2] /\ clip_max = clip_min
    /\ Len(propensity_matrix.data) > 0
    /\ clip_out.status = "raised" /\ clip_out.exc = "ValueError"

\* min(max(m, lo), hi), a bound that is None not applied
Clamp(m, lo, hi) ==
    LET raised == IF lo.k # "none" /\ m.n * lo.d < lo.n * m.d THEN lo ELSE m
    IN  IF hi.k # "none" /\ hi.n * raised.d < raised.n * hi.d THEN hi ELSE raised

\* the entries of the input matrix below clip_min / above clip_max
EntriesBelowMin ==
    IF clip_min.k = "none" THEN {}
    ELSE {p \in Positions(propensity_matrix) :
            propensity_matrix.data[p[1]][p[2]].n * clip_min.d
               < clip_min.n * propensity_matrix.data[p[1]][p[2]].d}

EntriesAboveMax ==
    IF clip_max.k = "none" THEN {}
    ELSE {p \in Positions(propensity_matrix) :
            clip_max.n * propensity_matrix.data[p[1]][p[2]].d
               < propensity_matrix.data[p[1]][p[2]].n * clip_max.d}

\* what C11 says of a call that returned
ClipResultAsClaimed ==
    /\ clip_out.clipped.index = propensity_matrix.index
    /\ clip_out.clipped.columns = propensity_matrix.columns
    /\ Len(clip_out.clipped.data) = Len(propensity_matrix.data)
    /\ \A p \in Positions(propensity_matrix) :
          clip_out.clipped.data[p[1]][p[2]]
             = Clamp(propensity_matrix.data[p[1]][p[2]], clip_min, clip_max)
    /\ clip_out.steps[2] = "copy"
    /\ clip_out.n_clipped_min = Cardinality(EntriesBelowMin)
    /\ clip_out.n_clipped_max = Cardinality(EntriesAboveMax)
    /\ Size(propensity_matrix) > 0 =>
          /\ clip_out.pct_clipped.k = "fin"
          /\ clip_out.pct_clipped.n * Size(propensity_matrix)
                = 100 * (clip_out.n_clipped_min + clip_out.n_clipped_max)
                    * clip_out.pct_clipped.d

\* C11: for every matrix M and accepted bounds, clip_propensity_scores
\* returns a matrix with the row identifiers and column labels of M whose
\* every entry is min(max(m, lo), hi), works on a copy of M, and reports
\* n_clipped_min = entries of M below lo, n_clipped_max = entries of M above
\* hi and pct_clipped = 100 * (n_clipped_min + n_clipped_max) / size of M.
C11_ClipElementwiseWithCounts ==
    (pc = "clipped" /\ BoundsAcceptable) =>
        /\ clip_out.status = "returned"
        /\ ClipResultAsClaimed

\* the same for matrices with at least one entry (the part of C11 that holds)
ClipNonEmptyAsClaimed ==
    (pc = "clipped" /\ BoundsAcceptable /\ Size(propensity_matrix) > 0) =>
        /\ clip_out.status = "returned"
        /\ ClipResultAsClaimed

----------------------------------------------------------------------------
(* compute_propensity_weights *)

\* float multiplication on [0, inf]: 0 * inf is nan
Mul(u, v) ==
    IF u.k = "nan" \/ v.k = "nan" THEN NaN
    ELSE IF u.k = "inf" THEN (IF v.k = "fin" /\ v.n = 0 THEN NaN ELSE Inf)
    ELSE IF v.k = "inf" THEN (IF u.n = 0 THEN NaN ELSE Inf)
    ELSE Rat(u.n * v.n, u.d * v.d)

\* the reciprocal left out: the weight is the propensity itself
RecipOmitted(u) == u

\* 1.0 / u for u >= 0: inf at 0
Recip(u) ==
    IF u.k = "nan" THEN NaN
    ELSE IF u.k = "inf" THEN Rat(0, 1)
    ELSE IF u.n = 0 THEN Inf
    ELSE Rat(u.d, u.n)

\* propensity_matrix.rdiv(1.0): the element-wise reciprocal
Rdiv(M) ==
    [M EXCEPT !.data = [i \in 1..Len(M.data) |->
        [j \in 1..Len(M.columns) |-> Recip(M.data[i][j])]]]

\* value_counts without normalize=True: the count of each observed level
ValueCountsRaw(vals) ==
    [l \in Range(vals) |-> Rat(Cardinality({i \in 1..Len(vals) : vals[i] = l}), 1)]

\* treatment_assignment.value_counts(normalize=True, sort=False)
ValueCountsNormalized(vals) ==
    [l \in Range(vals) |-> Rat(Cardinality({i \in 1..Len(vals) : vals[i] = l}), Len(vals))]

\* treatment_assignment.map(treatment_prevalence): nan for a level without entry
MapPrevalence(vals, prev) ==
    [i \in 1..Len(vals) |-> IF vals[i] \in DOMAIN prev THEN prev[vals[i]] ELSE NaN]

\* weights.multiply(per_sample, axis="index"): row i is scaled by per_sample[i]
\* (the matrix and the treatment vector carry the same index)
MultiplyByIndex(M, per_sample) ==
    [M EXCEPT !.data = [i \in 1..Len(M.data) |->
        [j \in 1..Len(M.columns) |-> Mul(M.data[i][j], per_sample[i])]]]

\* position of a label among the columns (0 when it is no column)
ColumnOf(M, l) ==
    IF \E j \in 1..Len(M.columns) : M.columns[j] = l
      THEN CHOOSE j \in 1..Len(M.columns) : M.columns[j] = l
      ELSE 0

\* weights[levels] for a list of labels, all of them columns
SelectColumns(M, levels) ==
    [index |-> M.index, columns |-> levels,
     data |-> [i \in 1..Len(M.data) |->
                 [c \in 1..Len(levels) |-> M.data[i][ColumnOf(M, levels[c])]]]]

\* robust_lookup(weights, treatment_assignment): for each sample the entry
\* of its row in the column of its own observed treatment, keyed like the
\* treatment vector
robust_lookup(M, ta) ==
    [i \in 1..Len(ta.values) |-> M.data[i][ColumnOf(M, ta.values[i])]]

\* results
WeightSeries(idx, vals) ==
    [status |-> "returned", exc |-> "none", shape |-> "Series",
     index |-> idx, columns |-> <<>>, data |-> vals]

WeightFrame(M) ==
    [status |-> "returned", exc |-> "none", shape |-> "DataFrame",
     index |-> M.index, columns |-> M.columns, data |-> M.data]

WeightsRaised(e) ==
    [status |-> "raised", exc |-> e, shape |-> "none",
     index |-> <<>>, columns |-> <<>>, data |-> <<>>]

\* isinstance(treatment_values, (int, str))
IsIntOrStr(tv) == tv.form = "scalar" /\ tv.levels[1].ty \in {"int", "str"}

AllColumns(M, levels) == \A c \in 1..Len(levels) : ColumnOf(M, levels[c]) # 0

\* compute_propensity_weights(propensity_matrix, treatment_assignment,
\*                            treatment_values, use_stabilized, treatment_prevalence)
compute_propensity_weights(M, ta, tv, stabilized, prevalence) ==
    LET inverse == Rdiv(M)
        prev == IF prevalence.given THEN prevalence.of
                ELSE ValueCountsNormalized(ta.values)
        scaled == IF stabilized
                    THEN MultiplyByIndex(inverse, MapPrevalence(ta.values, prev))
                    ELSE inverse
    IN  IF tv.form = "None"
          THEN WeightSeries(ta.index, robust_lookup(scaled, ta))
        ELSE IF tv.form = "scalar" /\ ~IsIntOrStr(tv)
          \* weights[treatment_values] selects one column, then
          \* len(treatment_values) fails on an object without a length
          THEN IF ColumnOf(scaled, tv.levels[1]) = 0
                 THEN WeightsRaised("KeyError")
                 ELSE WeightsRaised("TypeError")
        ELSE IF ~AllColumns(scaled, tv.levels)
          THEN WeightsRaised("KeyError")
        ELSE IF Len(tv.levels) = 1
          THEN WeightSeries(scaled.index,
                   [i \in 1..Len(scaled.data) |->
                       SelectColumns(scaled, tv.levels).data[i][1]])
        ELSE WeightFrame(SelectColumns(scaled, tv.levels))

----------------------------------------------------------------------------
(* Specification of weight computation *)

LabelTypes == {"int", "str", "float"}

\* a level that is no column of the matrix
AbsentLabel(ty) == Label(ty, 5)

\* the rows drawn: probabilities of the two levels, 0 and 1 included, and a
\* row that does not sum to 1
RowChoices ==
    {<<Rat(0, 1), Rat(1, 1)>>, <<Rat(1, 4), Rat(3, 4)>>, <<Rat(1, 2), Rat(1, 2)>>,
     <<Rat(2, 3), Rat(1, 3)>>, <<Rat(1, 1), Rat(1, 1)>>}

WeightIndexes == {RangeIndex(n) : n \in 1..MaxRows} \cup {DescendingIndex(n) : n \in 1..MaxRows}

WeightMatrices(ty) ==
    UNION {{Matrix(idx, TreatmentColumns(ty), rows) : rows \in [1..Len(idx) -> RowChoices]} :
             idx \in WeightIndexes}

\* treatment_values: None, a single level, or a list of levels
NoLevels == [form |-> "None", levels |-> <<>>]
OneLevel(l) == [form |-> "scalar", levels |-> <<l>>]
ListOfLevels(ls) == [form |-> "list", levels |-> ls]

TreatmentValueChoices(ty) ==
    LET c == TreatmentColumns(ty)
    IN  {NoLevels, OneLevel(c[1]), OneLevel(c[2]), OneLevel(AbsentLabel(ty)),
         ListOfLevels(<<>>), ListOfLevels(<<c[1]>>), ListOfLevels(<<c[2]>>),
         ListOfLevels(<<c[1], c[2]>>), ListOfLevels(<<c[2], c[1]>>),
         ListOfLevels(<<AbsentLabel(ty)>>), ListOfLevels(<<c[1], AbsentLabel(ty)>>)}

\* treatment_prevalence: None, or a precomputed P(A = l) for each column
PrevalenceChoices(ty) ==
    LET c == TreatmentColumns(ty)
    IN  {NoPrevalence,
         [given |-> TRUE,
          of |-> [l \in Range(c) |-> IF l = c[1] THEN Rat(1, 4) ELSE Rat(3, 4)]],
         [given |-> TRUE,
          of |-> [l \in Range(c) |-> IF l = c[1] THEN Rat(0, 1) ELSE Rat(1, 1)]]}

InitWeights ==
    /\ pc = "weights" /\ call = "none"
    /\ \E ty \in LabelTypes :
          /\ propensity_matrix \in WeightMatrices(ty)
          /\ treatment_assignment \in
                {Series(propensity_matrix.index, vals) :
                   vals \in [1..Len(propensity_matrix.index) -> Range(TreatmentColumns(ty))]}
          /\ treatment_values \in TreatmentValueChoices(ty)
          /\ treatment_prevalence \in PrevalenceChoices(ty)
    /\ use_stabilized \in BOOLEAN
    /\ (~use_stabilized) => treatment_prevalence = NoPrevalence
    /\ weights = NoWeights
    /\ GateIdle /\ ClipIdle /\ EffectIdle /\ EstimatorIdle
    /\ ReportsIdle
    /\ QueriesIdle
    /\ AccumulatorIdle

Call_compute_propensity_weights ==
    /\ pc = "weights"
    /\ weights' = compute_propensity_weights(propensity_matrix, treatment_assignment,
                      treatment_values, use_stabilized, treatment_prevalence)
    /\ call' = "compute_propensity_weights" /\ pc' = "done"
    /\ UNCHANGED <<propensity_matrix, treatment_assignment, treatment_values,
                   use_stabilized, treatment_prevalence, gateVars, clipVars,
                   effectVars, estimatorVars, reportVars, queryVars, accumulatorVars>>

NextWeights == Call_compute_propensity_weights

SpecWeights == InitWeights /\ [][NextWeights]_vars

----------------------------------------------------------------------------
(* calculate_effect: outcomes and their arithmetic *)

\* a scalar outcome of Python type int or float, or of numpy type
\* np.int64 or np.float64
Scalar(ty, v) == [kind |-> "scalar", ty |-> ty, index |-> <<>>, values |-> <<v>>]

\* a per-sample vector outcome (pd.Series)
Vector(idx, vals) == [kind |-> "Series", ty |-> "Series", index |-> idx, values |-> vals]

\* isinstance(val, (int, float)): np.float64 is a subclass of float,
\* np.int64 is not a subclass of int
IsIntOrFloat(o) == o.kind = "scalar" /\ o.ty \in {"int", "float", "np.float64"}

\* isinstance(outcome, (int, float, np.number))
IsScalarOutcome(o) == o.kind = "scalar"

\* the operand is a plain Python number: dividing one of these by another
\* that is zero raises ZeroDivisionError; numpy operands give inf or nan
IsPython(o) == o.kind = "scalar" /\ o.ty \in {"int", "float"}

IsZero(u) == u.k = "fin" /\ u.n = 0

\* the difference taken the other way round:
SubReversed(u, v) == Rat(v.n * u.d - u.n * v.d, u.d * v.d)

\* u - v on finite numbers
Sub(u, v) == Rat(u.n * v.d - v.n * u.d, u.d * v.d)

\* IEEE u / v; the infinities met here are positive (they arise from x / 0
\* with x >= 0 only)
Div(u, v) ==
    IF u.k = "nan" \/ v.k = "nan" THEN NaN
    ELSE IF u.k = "inf" THEN (IF v.k = "inf" THEN NaN ELSE Inf)
    ELSE IF v.k = "inf" THEN Rat(0, 1)
    ELSE IF v.n = 0 THEN (IF u.n = 0 THEN NaN ELSE Inf)
    ELSE Rat(u.n * v.d, u.d * v.n)

\* element i of an operand, a scalar being broadcast
Elem(o, i) == IF o.kind = "scalar" THEN o.values[1] ELSE o.values[i]

\* the type of o1 (op) o2
ResultTy(o1, o2, op) ==
    IF o1.kind = "Series" \/ o2.kind = "Series" THEN "Series"
    ELSE IF IsPython(o1) /\ IsPython(o2)
      THEN IF op = "-" /\ o1.ty = "int" /\ o2.ty = "int" THEN "int" ELSE "float"
    ELSE IF op = "-" /\ o1.ty \in {"int", "np.int64"} /\ o2.ty \in {"int", "np.int64"}
      THEN "np.int64"
    ELSE "np.float64"

\* u (op) v for the two operations the calculators use
ApplyOp(op, u, v) == IF op = "-" THEN Sub(u, v) ELSE Div(u, v)

\* o1 (op) o2 element-wise; two vectors share their index
Elementwise(o1, o2, op) ==
    LET ty == ResultTy(o1, o2, op)
        idx == IF o1.kind = "Series" THEN o1.index ELSE o2.index
        n == IF ty = "Series" THEN Len(idx) ELSE 1
    IN  [kind |-> IF ty = "Series" THEN "Series" ELSE "scalar", ty |-> ty,
         index |-> IF ty = "Series" THEN idx ELSE <<>>,
         values |-> [i \in 1..n |-> ApplyOp(op, Elem(o1, i), Elem(o2, i))]]

\* o1 / o2 raises ZeroDivisionError
DivisionRaises(o1, o2) == IsPython(o1) /\ IsPython(o2) /\ IsZero(o2.values[1])

\* results of one effect calculator
Computed(v) == [ok |-> TRUE, value |-> v, cause |-> "none", culprit |-> "none",
                observed |-> <<>>, n_zero |-> 0]

Failed(cause, culprit, observed, n_zero) ==
    [ok |-> FALSE, value |-> None, cause |-> cause, culprit |-> culprit,
     observed |-> observed, n_zero |-> n_zero]

\* _effect_diff
effect_diff(o1, o2) == Computed(Elementwise(o1, o2, "-"))

\* (outcome_2 == 0).sum()
CountZeros(o) == Cardinality({i \in 1..Len(o.values) : IsZero(o.values[i])})

\* a zero test that looks at the first element only:
AnyZeroFirstOnly(o) == Len(o.values) > 0 /\ IsZero(o.values[1])

\* (outcome_2 == 0).any()
AnyZero(o) == \E i \in 1..Len(o.values) : IsZero(o.values[i])

\* _effect_ratio: the message for a vector (and for a numpy integer) states
\* the number of zeros
effect_ratio(o1, o2) ==
    IF IsIntOrFloat(o2) /\ IsZero(o2.values[1])
      THEN Failed("zero_denominator", "outcome_2", <<>>, 0)
    ELSE IF ~IsIntOrFloat(o2) /\ AnyZero(o2)
      THEN Failed("zero_denominator", "outcome_2", <<>>, CountZeros(o2))
    ELSE Computed(Elementwise(o1, o2, "/"))

\* val.min() and val.max()
MinOf(o) == CHOOSE u \in Range(o.values) : \A v \in Range(o.values) : LessEq(u, v)
MaxOf(o) == CHOOSE u \in Range(o.values) : \A v \in Range(o.values) : LessEq(v, u)

\* a range test that looks at the upper end only:
OutsideUnitIntervalAboveOnly(o) ==
    \E i \in 1..Len(o.values) : Less(Rat(1, 1), o.values[i])

\* not (0 <= val <= 1), resp. (val < 0).any() or (val > 1).any()
OutsideUnitInterval(o) ==
    \E i \in 1..Len(o.values) :
        Less(o.values[i], Rat(0, 1)) \/ Less(Rat(1, 1), o.values[i])

\* _validate_probability_range(val, name): the message states the value of a
\* Python number and the range [min, max] of anything else
validate_probability_range(o, name) ==
    IF ~OutsideUnitInterval(o) THEN Computed(o)
    ELSE IF IsIntOrFloat(o) THEN Failed("out_of_range", name, <<o.values[1]>>, 0)
    ELSE Failed("out_of_range", name, <<MinOf(o), MaxOf(o)>>, 0)

\* the Python int 1 of `1 - outcome`
One == Scalar("int", Rat(1, 1))

\* outcome / (1 - outcome)
Complement(o) == Elementwise(One, o, "-")
Odds(o) == Elementwise(o, Complement(o), "/")

\* _effect_odds_ratio: both range tests, then the three divisions in order
effect_odds_ratio(o1, o2) ==
    IF ~validate_probability_range(o1, "outcome_1").ok
      THEN validate_probability_range(o1, "outcome_1")
    ELSE IF ~validate_probability_range(o2, "outcome_2").ok
      THEN validate_probability_range(o2, "outcome_2")
    ELSE IF DivisionRaises(o1, Complement(o1))
      THEN Failed("ZeroDivisionError", "odds_1", <<>>, 0)
    ELSE IF DivisionRaises(o2, Complement(o2))
      THEN Failed("ZeroDivisionError", "odds_2", <<>>, 0)
    ELSE IF DivisionRaises(Odds(o1), Odds(o2))
      THEN Failed("ZeroDivisionError", "odds_1 / odds_2", <<>>, 0)
    ELSE Computed(Elementwise(Odds(o1), Odds(o2), "/"))

----------------------------------------------------------------------------
(* calculate_effect *)

\* EffectType.VALID
VALID == {"diff", "ratio", "or"}

\* effect_types: one name (a str) or a list of names
OneName(n) == [form |-> "str", names |-> <<n>>]
ListOfNames(ns) == [form |-> "list", names |-> ns]

\* a validation that looks at the first requested name only:
InvalidNamesFirstOnly(et) ==
    IF et.names # <<>> /\ et.names[1] \notin VALID THEN {et.names[1]} ELSE {}

\* set(effect_types) - VALID of EffectType.validate
InvalidNames(et) == Range(et.names) \ VALID

\* _EFFECT_CALCULATORS[effect_type](outcome_1, outcome_2)
Calculator(name, o1, o2) ==
    IF name = "diff" THEN effect_diff(o1, o2)
    ELSE IF name = "ratio" THEN effect_ratio(o1, o2)
    ELSE effect_odds_ratio(o1, o2)

\* the position at which the loop over the requested types raises (0: nowhere)
FirstFailure(names, o1, o2) ==
    IF \E k \in 1..Len(names) : ~Calculator(names[k], o1, o2).ok
      THEN CHOOSE k \in 1..Len(names) :
             /\ ~Calculator(names[k], o1, o2).ok
             /\ \A j \in 1..(k - 1) : Calculator(names[j], o1, o2).ok
      ELSE 0

\* an error that names the first requested type, whichever type failed:
FailedTypeNameFirst(names, k) == names[1]

\* the effect type named by the error raised in the loop
FailedTypeName(names, k) == names[k]

\* the keys of the results dict, in order of first insertion
RECURSIVE Keys(_)
Keys(names) ==
    IF names = <<>> THEN <<>>
    ELSE LET before == Keys(Front(names))
             last == names[Len(names)]
         IN  IF last \in Range(before) THEN before ELSE Append(before, last)

EffectRaised(stage, named, f, offending) ==
    [NoEffect EXCEPT !.status = "raised", !.exc = "ValueError", !.stage = stage,
                     !.named = named, !.cause = f.cause, !.culprit = f.culprit,
                     !.offending = offending, !.observed = f.observed,
                     !.n_zero = f.n_zero]

\* pd.Series(results): one entry per effect type; an entry is whatever the
\* calculator returned, a vector when outcome_2 is a vector
EffectMapping(keys, o1, o2) ==
    [NoEffect EXCEPT
        !.status = "returned", !.shape = "Series", !.index = keys,
        !.entries = IF o2.kind = "Series" THEN "vectors" ELSE "scalars",
        !.data = [j \in 1..Len(keys) |->
                    IF o2.kind = "Series"
                      THEN Calculator(keys[j], o1, o2).value.values
                      ELSE Calculator(keys[j], o1, o2).value.values[1]]]

\* pd.concat(results, axis="columns"): one row per sample of outcome_1, one
\* column per effect type
EffectTable(keys, o1, o2) ==
    [NoEffect EXCEPT
        !.status = "returned", !.shape = "DataFrame", !.entries = "scalars",
        !.index = o1.index, !.columns = keys,
        !.data = [i \in 1..Len(o1.index) |->
                    [j \in 1..Len(keys) |-> Calculator(keys[j], o1, o2).value.values[i]]]]

\* calculate_effect(outcome_1, outcome_2, effect_types)
calculate_effect(o1, o2, et) ==
    LET names == et.names
        k == FirstFailure(names, o1, o2)
    IN  IF InvalidNames(et) # {}
          THEN EffectRaised("validate", "none",
                            Failed("invalid_effect_type", "none", <<>>, 0),
                            InvalidNames(et))
        ELSE IF k # 0
          THEN EffectRaised("compute", FailedTypeName(names, k),
                            Calculator(names[k], o1, o2), {})
        ELSE IF IsScalarOutcome(o1) THEN EffectMapping(Keys(names), o1, o2)
        ELSE IF names = <<>>
          THEN EffectRaised("format", "none",
                            Failed("no_objects_to_concatenate", "none", <<>>, 0), {})
        ELSE EffectTable(Keys(names), o1, o2)

----------------------------------------------------------------------------
(* Specification of effect calculation *)

\* scalar outcomes: integers of the int types; for the float types a value
\* below 0, the ends 0 and 1, 0.3 and 0.6 inside, and 1.5 above 1
IntValues == {Rat(0 - 1, 1), Rat(0, 1), Rat(1, 1), Rat(2, 1)}
FloatValues == {Rat(0 - 1, 2), Rat(0, 1), Rat(3, 10), Rat(3, 5), Rat(1, 1), Rat(3, 2)}

ScalarOutcomes ==
    {Scalar(ty, v) : ty \in {"int", "np.int64"}, v \in IntValues}
      \cup {Scalar(ty, v) : ty \in {"float", "np.float64"}, v \in FloatValues}

\* entries of vector outcomes
VectorValues == {Rat(0 - 1, 2), Rat(0, 1), Rat(1, 2), Rat(1, 1), Rat(3, 2)}

VectorOutcomes(n) ==
    {Vector(DescendingIndex(n), vals) : vals \in [1..n -> VectorValues]}

\* the pairs (outcome_1, outcome_2): two scalars, a scalar and a vector in
\* either order, two vectors over the same samples
OutcomePairs ==
    (ScalarOutcomes \X ScalarOutcomes)
      \cup UNION {(ScalarOutcomes \X VectorOutcomes(n))
                    \cup (VectorOutcomes(n) \X ScalarOutcomes)
                    \cup (VectorOutcomes(n) \X VectorOutcomes(n)) : n \in 1..MaxEffectLen}

\* the effect_types arguments drawn; "rr" and "xx" are no effect types
EffectTypeChoices ==
    {OneName("diff"), OneName("ratio"), OneName("or"), OneName("rr"),
     ListOfNames(<<>>), ListOfNames(<<"diff", "ratio">>),
     ListOfNames(<<"ratio", "or">>), ListOfNames(<<"or", "diff">>),
     ListOfNames(<<"diff", "ratio", "or">>), ListOfNames(<<"diff", "diff">>),
     ListOfNames(<<"diff", "rr">>), ListOfNames(<<"xx", "ratio", "rr">>)}

InitEffect ==
    /\ pc = "effect" /\ call = "none"
    /\ \E pair \in OutcomePairs : outcome_1 = pair[1] /\ outcome_2 = pair[2]
    /\ effect_types \in EffectTypeChoices
    /\ effect = NoEffect
    /\ propensity_matrix = NoMatrix
    /\ GateIdle /\ ClipIdle /\ WeightsIdle /\ EstimatorIdle
    /\ ReportsIdle
    /\ QueriesIdle
    /\ AccumulatorIdle

Call_calculate_effect ==
    /\ pc = "effect"
    /\ effect' = calculate_effect(outcome_1, outcome_2, effect_types)
    /\ call' = "calculate_effect" /\ pc' = "done"
    /\ UNCHANGED <<outcome_1, outcome_2, effect_types, gateVars, propensity_matrix,
                   clipVars, weightVars, estimatorVars, reportVars, queryVars, accumulatorVars>>

NextEffect == Call_calculate_effect

SpecEffect == InitEffect /\ [][NextEffect]_vars

----------------------------------------------------------------------------
(* The learner boundary and the estimator life cycle *)

\* hasattr(learner, name) for the two prediction capabilities
LearnerHas(l, name) ==
    IF name = "predict_proba" THEN l.predict_proba
    ELSE IF name = "decision_function" THEN l.decision_function
    ELSE FALSE

\* check_learner_has_method(learner, method_name): the exception raised, if any
check_learner_has_method(l, method_name) ==
    IF ~LearnerHas(l, method_name) THEN "LearnerInterfaceError" ELSE "none"

\* WeightEstimator.__init__ then PropensityEstimator.__init__: the attributes
\* are set first, then the learner is tested for predict_proba
PropensityEstimator(l) ==
    LET made == [NoEstimator EXCEPT !.attrs = {"learner", "use_stabilized"},
                                    !.cls = "PropensityEstimator"]
        exc == check_learner_has_method(l, "predict_proba")
    IN  IF exc # "none"
          THEN [NoEstimator EXCEPT !.built = "rejected", !.exc = exc]
          ELSE [made EXCEPT !.built = "constructed"]

\* range(n) as column labels
RangeColumns(n) == [j \in 1..n |-> j - 1]

\* the levels of a learner trained on a two-level treatment
BinaryClasses == <<"ctl", "trt">>

\* extract_propensity_scores(learner, X) for a learner whose predict_proba
\* returns an (n, 2) array and whose decision_function returns an (n,) array
extract_propensity_scores(l, pX) ==
    IF LearnerHas(l, "predict_proba")
      THEN [status |-> "returned", exc |-> "none", used |-> "predict_proba",
            index |-> pX.index,
            columns |-> IF l.classes_ # Absent THEN l.classes_ ELSE RangeColumns(2)]
    ELSE IF LearnerHas(l, "decision_function")
      THEN [status |-> "returned", exc |-> "none", used |-> "decision_function",
            index |-> pX.index, columns |-> <<0>>]
    ELSE [status |-> "raised", exc |-> "AttributeError", used |-> "none",
          index |-> <<>>, columns |-> <<>>]

\* the default fitted markers of check_is_fitted
DefaultFittedMarkers == <<"learner_", "treatment_values_">>

\* a marker test that looks for the first default marker only:
MissingFirstMarkerOnly(est) ==
    SelectSeq(<<"learner_">>, LAMBDA m : m \notin est.attrs)

\* missing_attrs of check_is_fitted: the default markers the estimator lacks
MissingMarkers(est) ==
    SelectSeq(DefaultFittedMarkers, LAMBDA m : m \notin est.attrs)

\* check_is_fitted(estimator) with attributes=None, msg=None, all_or_any="all"
check_is_fitted(est) ==
    IF MissingMarkers(est) # <<>>
      THEN [status |-> "raised", exc |-> "NotFittedError",
            missing |-> MissingMarkers(est), on |-> est]
      ELSE [status |-> "returned", exc |-> "none", missing |-> <<>>, on |-> est]

\* the distinct levels of a treatment vector, sorted
SortedLevels(vals) == SelectSeq(BinaryClasses, LAMBDA l : l \in Range(vals))

\* learner.fit(X, a): the learner is trained in place; a classifier that
\* publishes its classes sets classes_
LearnerFit(l, pa) ==
    [l EXCEPT !.fitted = TRUE,
              !.classes_ = IF l.sets_classes THEN SortedLevels(pa.values) ELSE Absent,
              !.marks = l.marks \cup l.sets_marks]

\* fit(X, a) of a concrete estimator: the validation gate, the learner's
\* training (which may fail), then the fitted state, recorded in one step at
\* the end of a successful fit
FitEstimator(est, pX, pa) ==
    [est EXCEPT !.attrs = est.attrs \cup {"learner_", "treatment_values_", "n_samples_"},
                !.learner_ = "learner",
                !.treatment_values_ = SortedLevels(pa.values),
                !.n_samples_ = PyLen(pX),
                !.fit_completed = TRUE]

----------------------------------------------------------------------------
(* Specification of the estimator life cycle *)

\* learners: every combination of the two capabilities, trained beforehand
\* or not, publishing classes_ when trained or not
Learners ==
    {[predict_proba |-> pp, decision_function |-> df, sets_classes |-> sc,
      fitted |-> f, classes_ |-> IF f /\ sc THEN BinaryClasses ELSE Absent,
      sets_marks |-> {}, marks |-> {}, hint |-> "none"] :
        pp \in BOOLEAN, df \in BOOLEAN, sc \in BOOLEAN, f \in BOOLEAN}

FitIndexes == {RangeIndex(n) : n \in 1..MaxFitLen} \cup {DescendingIndex(n) : n \in 1..MaxFitLen}

\* the treatment vectors given to fit for covariates indexed by idx: aligned
\* ones (some with a missing entry) and one in another order
FitTreatments(idx) ==
    {Series(idx, vals) : vals \in [1..Len(idx) -> TreatmentEntries]}
      \cup {Series(Reverse(idx), [i \in 1..Len(idx) |-> IF i = 1 THEN "ctl" ELSE "trt"])}

InitEstimator ==
    /\ pc = "estimator" /\ call = "none"
    /\ learner \in Learners
    /\ \E idx \in FitIndexes :
          /\ X = DataFrame(idx)
          /\ a \in FitTreatments(idx)
    /\ y = None
    /\ outcome = NoOutcome /\ emitted = <<>>
    /\ estimator = NoEstimator
    /\ extracted = NoExtract /\ fitted_check = NoCheck
    /\ propensity_matrix = NoMatrix
    /\ ClipIdle /\ WeightsIdle /\ EffectIdle
    /\ ReportsIdle
    /\ QueriesIdle
    /\ AccumulatorIdle

Construct_PropensityEstimator ==
    /\ pc = "estimator" /\ estimator.built = "none"
    /\ estimator' = PropensityEstimator(learner)
    /\ call' = "PropensityEstimator"
    /\ UNCHANGED <<pc, gateVars, propensity_matrix, clipVars, weightVars, effectVars,
                   learner, extracted, fitted_check, reportVars, queryVars, accumulatorVars>>

Call_extract_propensity_scores ==
    /\ pc = "estimator" /\ learner.fitted /\ extracted = NoExtract
    /\ extracted' = extract_propensity_scores(learner, X)
    /\ call' = "extract_propensity_scores"
    /\ UNCHANGED <<pc, gateVars, propensity_matrix, clipVars, weightVars, effectVars,
                   learner, estimator, fitted_check, reportVars, queryVars, accumulatorVars>>

\* fit(X, a): a failed gate or a failed training leaves the estimator as it
\* was; `outcome` records how the call ended
Call_fit ==
    /\ pc = "estimator" /\ estimator.built = "constructed"
    /\ estimator.fits < MaxFitCalls
    /\ LET gate == check_X_a_y(X, a, y)
           counted == [estimator EXCEPT !.fits = estimator.fits + 1]
       IN  /\ emitted' = emitted \o gate.emitted
           /\ \/ /\ gate.outcome.status = "raised"
                 /\ outcome' = gate.outcome
                 /\ UNCHANGED learner
                 /\ estimator' = counted
              \/ /\ gate.outcome.status = "returned"
                 /\ outcome' = Raised("LearnerError", "learner_fit", 0)
                 /\ UNCHANGED learner
                 /\ estimator' = counted
              \/ /\ gate.outcome.status = "returned"
                 /\ outcome' = Returned(<<"self">>)
                 /\ learner' = LearnerFit(learner, a)
                 /\ estimator' = FitEstimator(counted, X, a)
    /\ call' = "fit"
    /\ UNCHANGED <<pc, X, a, y, propensity_matrix, clipVars, weightVars, effectVars,
                   extracted, fitted_check, reportVars, queryVars, accumulatorVars>>

Call_check_is_fitted ==
    /\ pc = "estimator" /\ estimator.built = "constructed"
    /\ fitted_check' = check_is_fitted(estimator)
    /\ call' = "check_is_fitted"
    /\ UNCHANGED <<pc, gateVars, propensity_matrix, clipVars, weightVars, effectVars,
                   learner, estimator, extracted, reportVars, queryVars, accumulatorVars>>

NextEstimator ==
    \/ Construct_PropensityEstimator
    \/ Call_extract_propensity_scores
    \/ Call_fit
    \/ Call_check_is_fitted

SpecEstimator == InitEstimator /\ [][NextEstimator]_vars

----------------------------------------------------------------------------
(* Properties of effect calculation (checked under SpecEffect) *)

EffectCalled == call = "calculate_effect"

EffectReturned == EffectCalled /\ effect.status = "returned"

BothScalars == outcome_1.kind = "scalar" /\ outcome_2.kind = "scalar"

\* the samples of the vector argument(s)
EffectSamples ==
    IF outcome_1.kind = "Series" THEN outcome_1.index ELSE outcome_2.index

\* the requested names, each once
RequestedTypes == {effect_types.names[j] : j \in 1..Len(effect_types.names)}

\* the result is a mapping with one scalar per requested effect type
IsScalarMapping ==
    /\ effect.shape = "Series" /\ effect.entries = "scalars"
    /\ Range(effect.index) = RequestedTypes

\* the result is a table with one row per sample and one column per type
IsPerSampleTable ==
    /\ effect.shape = "DataFrame"
    /\ effect.index = EffectSamples
    /\ Len(effect.data) = Len(EffectSamples)
    /\ Range(effect.columns) = RequestedTypes
    /\ \A i \in 1..Len(effect.data) : Len(effect.data[i]) = Len(effect.columns)

\* C13: calculate_effect returns a scalar-per-effect-type mapping iff both
\* outcome_1 and outcome_2 are scalars, and a per-sample-per-effect-type
\* table (one row per sample, one column per requested type) whenever either
\* input is a per-sample vector, a scalar outcome_1 with a vector outcome_2
\* included.
C13_ShapeFollowsArgumentTypes ==
    EffectReturned =>
        /\ IsScalarMapping <=> BothScalars
        /\ ~BothScalars => IsPerSampleTable

\* what the code does: the shape follows the type of outcome_1 alone
ShapeFollowsFirstOutcome ==
    EffectReturned =>
        /\ outcome_1.kind = "scalar" => effect.shape = "Series"
        /\ outcome_1.kind = "Series" => IsPerSampleTable
        /\ BothScalars => IsScalarMapping

\* the effect types the result holds
ResultTypes ==
    IF effect.shape = "DataFrame" THEN Range(effect.columns) ELSE Range(effect.index)

\* the computation of one requested type fails on the given outcomes
TypeFails(name) == ~Calculator(name, outcome_1, outcome_2).ok

SeveralValidTypes ==
    /\ effect_types.form = "list" /\ Len(effect_types.names) >= 2
    /\ RequestedTypes \subseteq {"diff", "ratio", "or"}

\* C14: when several effect types are requested, calculate_effect either
\* returns a result that holds every requested type or raises an error that
\* names a requested type whose computation failed; a failure of any
\* requested type, at any position of the list, makes the whole call fail,
\* and no partial result is returned.
C14_AllTypesOrNamedFailure ==
    (EffectCalled /\ SeveralValidTypes) =>
        /\ effect.status \in {"returned", "raised"}
        /\ (\E name \in RequestedTypes : TypeFails(name)) <=> effect.status = "raised"
        /\ effect.status = "raised" =>
              /\ effect.stage = "compute"
              /\ effect.named \in RequestedTypes /\ TypeFails(effect.named)
              /\ effect.data = <<>> /\ effect.shape = "none"
        /\ effect.status = "returned" => ResultTypes = RequestedTypes

\* C14 witness: the last of three requested types fails, 'diff' and
\* 'ratio' before it being computable
C14_Witness ==
    /\ EffectCalled /\ effect_types.names = <<"diff", "ratio", "or">>
    /\ ~TypeFails("diff") /\ ~TypeFails("ratio") /\ TypeFails("or")
    /\ effect.status = "raised" /\ effect.named = "or"

\* the requested names outside the three supported ones
UnsupportedRequested == RequestedTypes \ {"diff", "ratio", "or"}

\* C15: calculate_effect rejects, before computing any effect, every
\* effect_types argument (one name or a list) holding a name outside the
\* three supported types, with an error naming exactly the offending names;
\* when every requested name is supported, validation passes and the
\* requested types are computed.
C15_EffectTypesValidated ==
    EffectCalled =>
        /\ UnsupportedRequested # {} =>
              /\ effect.status = "raised" /\ effect.stage = "validate"
              /\ effect.cause = "invalid_effect_type"
              /\ effect.offending = UnsupportedRequested
              /\ effect.named = "none"
        /\ UnsupportedRequested = {} =>
              /\ effect.stage # "validate"
              /\ effect.status = "returned" => ResultTypes = RequestedTypes
              /\ (effect.status = "raised" /\ effect.stage = "compute")
                    => TypeFails(effect.named)

\* C15 witness: a list with a supported name between two unsupported ones,
\* on outcomes for which the supported one (ratio) would itself fail
C15_Witness ==
    /\ EffectCalled /\ effect_types.names = <<"xx", "ratio", "rr">>
    /\ TypeFails("ratio")
    /\ effect.status = "raised" /\ effect.offending = {"xx", "rr"}

\* element i of an outcome argument (a scalar counts for every sample)
OutcomeAt(o, i) == IF o.kind = "scalar" THEN o.values[1] ELSE o.values[i]

\* the positions of the elements the call pairs up
ElementPositions == IF BothScalars THEN {1} ELSE 1..Len(EffectSamples)

\* the entry of the result for sample i and effect type name
EffectEntry(i, name) ==
    LET keys == IF effect.shape = "DataFrame" THEN effect.columns ELSE effect.index
        j == CHOOSE c \in 1..Len(keys) : keys[c] = name
    IN  IF effect.shape = "DataFrame" THEN effect.data[i][j]
        ELSE IF effect.entries = "vectors" THEN effect.data[j][i]
        ELSE effect.data[j]

\* the number of elements of outcome_2 that are zero
ZerosInDenominator ==
    Cardinality({i \in 1..Len(outcome_2.values) : outcome_2.values[i].n = 0})

\* ratio is requested and nothing requested with it can fail before it
RatioRequested ==
    /\ "ratio" \in RequestedTypes /\ RequestedTypes \subseteq {"diff", "ratio"}

\* C16: calculate_effect with the ratio type fails with a division-by-zero
\* error, raised by a check made before the division, whenever outcome_2 is
\* zero (a scalar of any of the numeric types) or holds at least one zero
\* (a vector); for a vector the error states the number of zeros; whenever
\* outcome_2 holds no zero the call succeeds.
C16_RatioZeroDenominatorRejected ==
    (EffectCalled /\ RatioRequested) =>
        /\ ZerosInDenominator > 0 =>
              /\ effect.status = "raised" /\ effect.stage = "compute"
              /\ effect.named = "ratio" /\ effect.cause = "zero_denominator"
              /\ outcome_2.kind = "Series" => effect.n_zero = ZerosInDenominator
        /\ ZerosInDenominator = 0 => effect.status = "returned"

\* C16 witness: a vector outcome_2 whose only zero is its last element
C16_Witness ==
    /\ EffectCalled /\ effect_types = [form |-> "str", names |-> <<"ratio">>]
    /\ outcome_2.kind = "Series" /\ Len(outcome_2.values) = 2
    /\ outcome_2.values[1].n # 0 /\ outcome_2.values[2].n = 0
    /\ effect.status = "raised" /\ effect.n_zero = 1

\* some element of the outcome lies below 0 or above 1
NotAProbability(o) ==
    \E i \in 1..Len(o.values) :
        o.values[i].n < 0 \/ o.values[i].n > o.values[i].d

\* u is the smallest (resp. largest) element of the outcome
SmallestIs(o, u) ==
    /\ \E i \in 1..Len(o.values) : o.values[i] = u
    /\ \A i \in 1..Len(o.values) : u.n * o.values[i].d <= o.values[i].n * u.d

LargestIs(o, u) ==
    /\ \E i \in 1..Len(o.values) : o.values[i] = u
    /\ \A i \in 1..Len(o.values) : o.values[i].n * u.d <= u.n * o.values[i].d

\* the error states the value, or the range [min, max], of outcome o
ObservedIsOf(o) ==
    \/ effect.observed = <<o.values[1]>> /\ o.kind = "scalar"
    \/ /\ Len(effect.observed) = 2
       /\ SmallestIs(o, effect.observed[1]) /\ LargestIs(o, effect.observed[2])

\* the odds ratio is requested and nothing requested with it can fail
OddsRatioRequested ==
    /\ "or" \in RequestedTypes /\ RequestedTypes \subseteq {"diff", "or"}

\* r = (p / (1 - p)) / (q / (1 - q)), for p # 1 and q outside {0, 1}
IsOddsRatio(r, p, q) ==
    /\ r.k = "fin"
    /\ r.n * ((p.d - p.n) * q.n) = r.d * (p.n * (q.d - q.n))

\* the odds ratio of elements p and q is a number
OddsRatioDefined(p, q) == p.n # p.d /\ q.n # 0 /\ q.n # q.d

OddsRatioComputed ==
    /\ EffectCalled /\ effect_types = [form |-> "str", names |-> <<"or">>]
    /\ BothScalars
    /\ outcome_1.values[1] = [k |-> "fin", n |-> 3, d |-> 5]
    /\ outcome_2.values[1] = [k |-> "fin", n |-> 3, d |-> 10]
    /\ effect.status = "returned"
    /\ effect.data = <<[k |-> "fin", n |-> 7, d |-> 2]>>

\* every number the result holds
EffectNumbers ==
    IF effect.shape = "DataFrame"
      THEN {effect.data[i][j] : i \in 1..Len(effect.index), j \in 1..Len(effect.columns)}
    ELSE IF effect.entries = "vectors"
      THEN UNION {Range(effect.data[j]) : j \in 1..Len(effect.index)}
    ELSE Range(effect.data)

\* C18: for finite inputs calculate_effect never returns a result holding an
\* infinite or undefined value: every input for which the arithmetic is
\* undefined (ratio with a zero in outcome_2; odds ratio with an element of
\* either outcome equal to 1 or an element of outcome_2 equal to 0) is
\* rejected at validation, before the arithmetic, scalars and vectors alike.
C18_NoInfiniteOrUndefinedResult ==
    EffectCalled =>
        /\ effect.status = "returned" => \A r \in EffectNumbers : r.k = "fin"
        /\ effect.status = "raised" => effect.cause # "ZeroDivisionError"

\* the ratio part of C18, which holds: no ratio or difference returned is
\* infinite or undefined
RatioAndDiffFinite ==
    (EffectCalled /\ RequestedTypes \subseteq {"diff", "ratio"}) =>
        /\ effect.status = "returned" => \A r \in EffectNumbers : r.k = "fin"
        /\ effect.status = "raised" => effect.cause # "ZeroDivisionError"

\* the two outcomes are both scalars or both vectors (over the same samples)
SameKindOutcomes == outcome_1.kind = outcome_2.kind

\* r = p - q and r = p / q (q # 0) on rationals
IsDifference(r, p, q) ==
    r.k = "fin" /\ r.n * (p.d * q.d) = r.d * (p.n * q.d - q.n * p.d)

IsQuotient(r, p, q) ==
    r.k = "fin" /\ r.n * (p.d * q.n) = r.d * (p.n * q.d)

\* C19: for scalar outcomes and for vector outcomes sharing one index,
\* calculate_effect(o1, o2, 'diff') is o1 - o2 element by element and is
\* defined for every input, and calculate_effect(o1, o2, 'ratio') is
\* o1 / o2 element by element when o2 holds no zero.
C19_DiffAndRatioValues ==
    (EffectCalled /\ SameKindOutcomes /\ effect_types.form = "str") =>
        /\ effect_types.names = <<"diff">> =>
              /\ effect.status = "returned"
              /\ \A i \in ElementPositions :
                    IsDifference(EffectEntry(i, "diff"), OutcomeAt(outcome_1, i),
                                 OutcomeAt(outcome_2, i))
        /\ (effect_types.names = <<"ratio">> /\ ZerosInDenominator = 0) =>
              /\ effect.status = "returned"
              /\ \A i \in ElementPositions :
                    IsQuotient(EffectEntry(i, "ratio"), OutcomeAt(outcome_1, i),
                               OutcomeAt(outcome_2, i))

\* C19 witness: (0.3, 0.6) gives diff -0.3
C19_Witness ==
    /\ EffectCalled /\ effect_types = [form |-> "str", names |-> <<"diff">>]
    /\ outcome_1 = Scalar("float", [k |-> "fin", n |-> 3, d |-> 10])
    /\ outcome_2 = Scalar("float", [k |-> "fin", n |-> 3, d |-> 5])
    /\ effect.status = "returned" /\ effect.shape = "Series"
    /\ effect.data = <<[k |-> "fin", n |-> 0 - 3, d |-> 10]>>

\* (0.6, 0.3) gives ratio 2.0
RatioOfExample ==
    /\ EffectCalled /\ effect_types = [form |-> "str", names |-> <<"ratio">>]
    /\ outcome_1 = Scalar("float", [k |-> "fin", n |-> 3, d |-> 5])
    /\ outcome_2 = Scalar("float", [k |-> "fin", n |-> 3, d |-> 10])
    /\ effect.data = <<[k |-> "fin", n |-> 2, d |-> 1]>>

----------------------------------------------------------------------------
(* Properties of the learner boundary (checked under SpecEstimator) *)

\* the learner exposes one of the two capabilities the claim names
LearnerCapable == learner.predict_proba \/ learner.decision_function

\* C12: a learner is accepted by the construction of a PropensityEstimator
\* and by extract_propensity_scores iff it exposes predict_proba or
\* decision_function; predict_proba is used whenever present,
\* decision_function only when predict_proba is absent, and a learner with
\* neither is rejected with a learner-interface error.
C12_LearnerAcceptedIffEitherCapability ==
    /\ estimator.built # "none" =>
          /\ estimator.built = "constructed" <=> LearnerCapable
          /\ estimator.built = "rejected" => estimator.exc = "LearnerInterfaceError"
    /\ extracted.status # "none" =>
          /\ extracted.status = "returned" <=> LearnerCapable
          /\ extracted.used = "predict_proba" <=> learner.predict_proba
          /\ extracted.used = "decision_function" <=>
                (learner.decision_function /\ ~learner.predict_proba)
          /\ extracted.status = "raised" => extracted.exc = "LearnerInterfaceError"

\* the part of C12 that holds: the order of preference in
\* extract_propensity_scores, and the interface error of the constructor
LearnerPreferenceAsClaimed ==
    /\ extracted.status # "none" =>
          /\ extracted.status = "returned" <=> LearnerCapable
          /\ extracted.used = "predict_proba" <=> learner.predict_proba
          /\ extracted.used = "decision_function" <=>
                (learner.decision_function /\ ~learner.predict_proba)
    /\ estimator.built = "rejected" => estimator.exc = "LearnerInterfaceError"
    /\ estimator.built = "constructed" => learner.predict_proba

----------------------------------------------------------------------------
(* Properties of the fitted check (checked under SpecEstimator) *)

\* the required fitted markers the checked estimator lacked
MarkersAbsent == {"learner_", "treatment_values_"} \ fitted_check.on.attrs

\* what C20 says of the last check_is_fitted call and the estimator it saw
FittedCheckAsClaimed ==
    fitted_check.status # "none" =>
        /\ fitted_check.status = "raised" <=> MarkersAbsent # {}
        /\ fitted_check.status = "raised" =>
              /\ fitted_check.exc = "NotFittedError"
              /\ Range(fitted_check.missing) = MarkersAbsent
        /\ fitted_check.status = "returned" <=> MarkersAbsent = {}
        /\ ~fitted_check.on.fit_completed => fitted_check.status = "raised"
        /\ fitted_check.on.fit_completed => fitted_check.status = "returned"

CheckRaisedAfterFailedFit ==
    /\ call = "check_is_fitted"
    /\ estimator.fits = 1 /\ ~estimator.fit_completed
    /\ fitted_check.status = "raised" /\ fitted_check.on = estimator
    /\ fitted_check.missing = <<"learner_", "treatment_values_">>

----------------------------------------------------------------------------
(* Diagnostic reports: numbers *)

\* float addition on numbers whose infinities are positive
Add(u, v) ==
    IF u.k = "nan" \/ v.k = "nan" THEN NaN
    ELSE IF u.k = "inf" \/ v.k = "inf" THEN Inf
    ELSE Rat(u.n * v.d + v.n * u.d, u.d * v.d)

\* u < v where the infinities are positive; false when either side is nan
Below(u, v) ==
    /\ u.k \in {"fin", "inf"} /\ v.k \in {"fin", "inf"}
    /\ u.k = "fin"
    /\ v.k = "inf" \/ u.n * v.d < v.n * u.d

RECURSIVE SumOf(_)
\* np.sum of a sequence of numbers
SumOf(vals) == IF vals = <<>> THEN Rat(0, 1) ELSE Add(vals[1], SumOf(Tail(vals)))

\* the k-th smallest entry of a sequence without nan (sorted(vals)[k - 1])
KthSmallest(vals, k) ==
    CHOOSE u \in Range(vals) :
        /\ Cardinality({i \in 1..Len(vals) : Below(vals[i], u)}) < k
        /\ k <= Cardinality({i \in 1..Len(vals) : ~Below(u, vals[i])})

\* np.percentile(vals, q) for q = 25 * quarters, by linear interpolation
\* between the two entries that enclose position (n - 1) * q / 100
Percentile(vals, quarters) ==
    LET pos4 == (Len(vals) - 1) * quarters
        lo == (pos4 \div 4) + 1
        hi == IF lo < Len(vals) THEN lo + 1 ELSE lo
    IN  Add(KthSmallest(vals, lo),
            Mul(Rat(pos4 % 4, 4), Sub(KthSmallest(vals, hi), KthSmallest(vals, lo))))

\* np.mean
MeanOf(vals) == Div(SumOf(vals), Rat(Len(vals), 1))

\* np.min and np.max of a sequence without nan
MinNumber(vals) == KthSmallest(vals, 1)
MaxNumber(vals) == KthSmallest(vals, Len(vals))

\* a missing entry of a Series of floats (isna): nan
IsMissing(v) == v.k = "nan"

----------------------------------------------------------------------------
(* compute_overlap_diagnostic *)

\* valid_idx: the positions where score and treatment are both present
ValidPositions(ps, ta) ==
    SelectSeq([i \in 1..Len(ps.values) |-> i],
              LAMBDA i : ~IsMissing(ps.values[i]) /\ ta.values[i] # NA)

\* a membership test of the overlap region that leaves its end points out:
InOverlapOpen(u, q1, q3) == Below(q1, u) /\ Below(u, q3)

\* (scores >= q1) & (scores <= q3)
InOverlap(u, q1, q3) == ~Below(u, q1) /\ ~Below(q3, u)

\* 100.0 * n_in / n_per if n_per > 0 else 0.0
PctInOverlap(n_in, n_per) == IF n_per > 0 THEN Rat(100 * n_in, n_per) ELSE Rat(0, 1)

\* compute_overlap_diagnostic(propensity_scores, treatment_assignment, treatment_values)
compute_overlap_diagnostic(ps, ta, tv) ==
    LET valid == ValidPositions(ps, ta)
        scores == [k \in 1..Len(valid) |-> ps.values[valid[k]]]
        treatments == [k \in 1..Len(valid) |-> ta.values[valid[k]]]
        levels == Range(tv)
        q1 == Percentile(scores, 1)
        q3 == Percentile(scores, 3)
        n_per == [t \in levels |->
                    Cardinality({k \in 1..Len(valid) : treatments[k] = t})]
        n_in == [t \in levels |->
                    Cardinality({k \in 1..Len(valid) :
                        treatments[k] = t /\ InOverlap(scores[k], q1, q3)})]
        pct == [t \in levels |-> PctInOverlap(n_in[t], n_per[t])]
        has == \A t \in levels : n_in[t] # 0
        low == SelectSeq(tv, LAMBDA t : Below(pct[t], Rat(50, 1)))
    IN  IF Len(valid) = 0
          THEN [status |-> "raised", exc |-> "ValueError"]
          ELSE [status |-> "returned", exc |-> "none",
                treatment_values |-> tv,
                n_samples_per_treatment |-> n_per,
                has_overlap |-> has,
                overlap_range |-> <<q1, q3>>,
                n_samples_in_overlap |-> n_in,
                pct_in_overlap |-> pct,
                propensity_min |-> MinNumber(scores),
                propensity_max |-> MaxNumber(scores),
                propensity_mean |-> MeanOf(scores),
                propensity_q1 |-> q1,
                propensity_q3 |-> q3,
                notes |-> (IF has THEN <<>> ELSE <<[note |-> "no_overlap", of |-> <<>>]>>)
                          \o (IF low # <<>> THEN <<[note |-> "low_overlap", of |-> low]>>
                              ELSE <<>>)]

----------------------------------------------------------------------------
(* Specification of the overlap diagnostic *)

\* one sample: its score and its treatment, either of which may be missing
OverlapSamples ==
    ({Rat(0, 1), Rat(1, 2), Rat(1, 1)} \X {"ctl", "trt"})
        \cup {<<NaN, "ctl">>, <<Rat(1, 2), NA>>}

\* the lists of levels asked about: both, one, none, and one never assigned
OverlapLevelChoices == {<<"ctl", "trt">>, <<"trt">>, <<>>, <<"ctl", "trt", "new">>}

InitOverlap ==
    /\ pc = "overlap" /\ call = "none"
    /\ \E n \in 1..MaxScores : \E samples \in [1..n -> OverlapSamples] :
          /\ propensity_scores = Series(RangeIndex(n), [i \in 1..n |-> samples[i][1]])
          /\ treatment_assignment = Series(RangeIndex(n), [i \in 1..n |-> samples[i][2]])
    /\ \E tv \in OverlapLevelChoices : treatment_values = ListOfLevels(tv)
    /\ weight_distribution = NoReport /\ overlap_diagnostic = NoReport
    /\ use_stabilized = FALSE /\ treatment_prevalence = NoPrevalence
    /\ weights = NoWeights /\ propensity_matrix = NoMatrix
    /\ GateIdle /\ ClipIdle /\ EffectIdle /\ EstimatorIdle
    /\ QueriesIdle
    /\ AccumulatorIdle

Call_compute_overlap_diagnostic ==
    /\ pc = "overlap"
    /\ overlap_diagnostic' = compute_overlap_diagnostic(propensity_scores,
                                 treatment_assignment, treatment_values.levels)
    /\ call' = "compute_overlap_diagnostic" /\ pc' = "done"
    /\ UNCHANGED <<propensity_scores, weight_distribution, propensity_matrix,
                   gateVars, clipVars, weightVars, effectVars, estimatorVars, queryVars, accumulatorVars>>

NextOverlap == Call_compute_overlap_diagnostic

SpecOverlap == InitOverlap /\ [][NextOverlap]_vars

----------------------------------------------------------------------------
(* Properties of the overlap diagnostic (checked under SpecOverlap) *)

OverlapComputed ==
    call = "compute_overlap_diagnostic" /\ overlap_diagnostic.status = "returned"

\* the samples that count: score and treatment both present
PooledSamples ==
    {i \in 1..Len(propensity_scores.values) :
        propensity_scores.values[i].k # "nan" /\ treatment_assignment.values[i] # NA}

\* q is the p-th quartile of the pooled scores (p = 1 or 3): with n pooled
\* scores, position h = (n - 1) * p / 4 of the sorted scores, between the
\* entries below and above h in proportion; stated on counts, without sorting
IsQuartile(q, p) ==
    LET n == Cardinality(PooledSamples)
        sc(i) == propensity_scores.values[i]
        \* sorted position j (0-based) holds a score <= u (resp. >= u)
        AtMostAt(u, j) == Cardinality({i \in PooledSamples : ~Below(u, sc(i))}) >= j + 1
        AtLeastAt(u, j) == Cardinality({i \in PooledSamples : Below(sc(i), u)}) <= j
        Holds(u, j) == AtLeastAt(u, j) /\ AtMostAt(u, j)
        lo == ((n - 1) * p) \div 4
        r == ((n - 1) * p) % 4
    IN  \E i1 \in PooledSamples : \E i2 \in PooledSamples :
           /\ Holds(sc(i1), lo)
           /\ Holds(sc(i2), IF lo + 1 < n THEN lo + 1 ELSE lo)
           /\ q.k = "fin"
           /\ 4 * q.n * sc(i1).d * sc(i2).d
                = q.d * ((4 - r) * sc(i1).n * sc(i2).d + r * sc(i2).n * sc(i1).d)

\* the samples of level t, and those of them whose score lies in [Q1, Q3]
SamplesOf(t) == {i \in PooledSamples : treatment_assignment.values[i] = t}
SamplesInRegion(t) ==
    {i \in SamplesOf(t) :
        /\ LessEq(overlap_diagnostic.propensity_q1, propensity_scores.values[i])
        /\ LessEq(propensity_scores.values[i], overlap_diagnostic.propensity_q3)}

\* C27: has_overlap is true iff every level in treatment_values has at least
\* one sample whose score lies in the closed interval [Q1, Q3] of the pooled
\* scores (a listed level with no samples at all makes it false); for every
\* level n_samples_in_overlap <= n_samples_per_treatment and pct_in_overlap
\* lies in [0, 100].
C27_OverlapEveryLevelInRegion ==
    OverlapComputed =>
        /\ IsQuartile(overlap_diagnostic.propensity_q1, 1)
        /\ IsQuartile(overlap_diagnostic.propensity_q3, 3)
        /\ overlap_diagnostic.has_overlap <=>
              \A t \in Range(treatment_values.levels) : SamplesInRegion(t) # {}
        /\ \A t \in Range(treatment_values.levels) :
              /\ SamplesOf(t) = {} => ~overlap_diagnostic.has_overlap
              /\ overlap_diagnostic.n_samples_per_treatment[t] = Cardinality(SamplesOf(t))
              /\ overlap_diagnostic.n_samples_in_overlap[t] = Cardinality(SamplesInRegion(t))
              /\ overlap_diagnostic.n_samples_in_overlap[t]
                    <= overlap_diagnostic.n_samples_per_treatment[t]
              /\ LessEq(Rat(0, 1), overlap_diagnostic.pct_in_overlap[t])
              /\ LessEq(overlap_diagnostic.pct_in_overlap[t], Rat(100, 1))

\* C27 witness: three pooled samples, both levels observed, the only "ctl"
\* sample below Q1 = 1/4: no overlap, although "trt" has all its samples in
\* the region
C27_Witness ==
    /\ OverlapComputed
    /\ treatment_values.levels = <<"ctl", "trt">>
    /\ Cardinality(PooledSamples) = 3
    /\ overlap_diagnostic.propensity_q1 = [k |-> "fin", n |-> 1, d |-> 4]
    /\ overlap_diagnostic.n_samples_per_treatment["ctl"] = 1
    /\ overlap_diagnostic.n_samples_in_overlap["ctl"] = 0
    /\ overlap_diagnostic.pct_in_overlap["trt"] = [k |-> "fin", n |-> 100, d |-> 1]
    /\ ~overlap_diagnostic.has_overlap

\* two levels that both reach into the region: overlap reported
OverlapReported ==
    /\ OverlapComputed
    /\ treatment_values.levels = <<"ctl", "trt">>
    /\ overlap_diagnostic.has_overlap
    /\ overlap_diagnostic.propensity_q1 # overlap_diagnostic.propensity_q3

----------------------------------------------------------------------------
(* compute_weight_distribution *)

\* weights.dropna().values
Dropna(vals) == SelectSeq(vals, LAMBDA v : ~IsMissing(v))

Square(u) == Mul(u, u)

\* np.median: the middle entry, or the mean of the two middle entries
MedianOf(vals) ==
    LET n == Len(vals)
    IN  IF n % 2 = 1 THEN KthSmallest(vals, (n + 1) \div 2)
        ELSE Div(Add(KthSmallest(vals, n \div 2), KthSmallest(vals, n \div 2 + 1)),
                 Rat(2, 1))

\* np.std(w) squared: the mean squared deviation from the mean; with an
\* infinite entry the deviations hold inf - inf and the result is nan
VarianceOf(vals) ==
    IF \E i \in 1..Len(vals) : ~IsFinite(vals[i]) THEN NaN
    ELSE MeanOf([i \in 1..Len(vals) |-> Square(Sub(vals[i], MeanOf(vals)))])

\* (w < mean - 3 * std) | (w > mean + 3 * std), stated on the squares
IsExtremeWeight(u, mean, var) ==
    /\ IsFinite(u) /\ IsFinite(mean) /\ IsFinite(var)
    /\ Less(Mul(Rat(9, 1), var), Square(Sub(u, mean)))

\* Kish's formula with the guard left out:
KishUnguarded(sum_w, sum_w2) == Div(Square(sum_w), sum_w2)

\* float((sum_w ** 2) / sum_w2) if sum_w2 > 0 else None
Kish(sum_w, sum_w2) ==
    IF Below(Rat(0, 1), sum_w2) THEN Div(Square(sum_w), sum_w2) ELSE NoNumber

\* compute_weight_distribution(weights)
compute_weight_distribution(wts) ==
    LET w == Dropna(wts.data)
        n == Len(w)
        mean == MeanOf(w)
        var == VarianceOf(w)
        n_extreme == Cardinality({i \in 1..n : IsExtremeWeight(w[i], mean, var)})
    IN  IF n = 0
          THEN [status |-> "raised", exc |-> "ValueError"]
          ELSE [status |-> "returned", exc |-> "none",
                min_weight |-> MinNumber(w),
                max_weight |-> MaxNumber(w),
                mean_weight |-> mean,
                median_weight |-> MedianOf(w),
                std_weight_squared |-> var,
                n_weights |-> n,
                n_extreme |-> n_extreme,
                pct_extreme |-> Rat(100 * n_extreme, n),
                effective_sample_size |->
                    Kish(SumOf(w), SumOf([i \in 1..n |-> Square(w[i])]))]

----------------------------------------------------------------------------
(* Specification of the weight distribution *)

\* weights drawn: zero, equal and unequal positive ones, a negative one, the
\* inf that 1 / 0 gives, and a missing one
WeightValues == {Rat(0, 1), Rat(1, 1), Rat(2, 1), Rat(97, 1), Rat(0 - 1, 1), Inf, NaN}

\* a long vector of unit weights with one outlier at the end
BulkWeights == [i \in 1..(Bulk + 1) |-> IF i <= Bulk THEN Rat(1, 1) ELSE Rat(97, 1)]

WeightVectors ==
    {<<>>, BulkWeights} \cup UNION {[1..n -> WeightValues] : n \in 1..MaxWeights}

InitDistribution ==
    /\ pc = "distribution" /\ call = "none"
    /\ \E vals \in WeightVectors : weights = WeightSeries(RangeIndex(Len(vals)), vals)
    /\ treatment_assignment = None
    /\ treatment_values = NoLevels
    /\ use_stabilized = FALSE /\ treatment_prevalence = NoPrevalence
    /\ propensity_matrix = NoMatrix
    /\ GateIdle /\ ClipIdle /\ EffectIdle /\ EstimatorIdle /\ ReportsIdle
    /\ QueriesIdle
    /\ AccumulatorIdle

Call_compute_weight_distribution ==
    /\ pc = "distribution"
    /\ weight_distribution' = compute_weight_distribution(weights)
    /\ call' = "compute_weight_distribution" /\ pc' = "done"
    /\ UNCHANGED <<propensity_scores, overlap_diagnostic, propensity_matrix,
                   gateVars, clipVars, weightVars, effectVars, estimatorVars, queryVars, accumulatorVars>>

NextDistribution == Call_compute_weight_distribution

SpecDistribution == InitDistribution /\ [][NextDistribution]_vars

----------------------------------------------------------------------------
(* Properties of the weight distribution (checked under SpecDistribution) *)

DistributionComputed ==
    call = "compute_weight_distribution" /\ weight_distribution.status = "returned"

\* the weights that are not missing
PresentWeights == {i \in 1..Len(weights.data) : weights.data[i].k # "nan"}

\* the sums of the present weights and of their squares
SumPresent == SumOf(Dropna(weights.data))
SumSquaresPresent ==
    SumOf([i \in 1..Len(Dropna(weights.data)) |-> Square(Dropna(weights.data)[i])])

\* e is the fraction s1^2 / s2 of two finite numbers, s2 not 0
IsKishQuotient(e, s1, s2) ==
    /\ IsFinite(e) /\ IsFinite(s1) /\ IsFinite(s2) /\ s2.n # 0
    /\ e = Rat(s1.n * s1.n * s2.d, s1.d * s1.d * s2.n)

\* non-negative weights, at least one of them positive
NonNegativeSomePositive ==
    /\ \A i \in PresentWeights : ~Below(weights.data[i], Rat(0, 1))
    /\ \E i \in PresentWeights : Below(Rat(0, 1), weights.data[i])

\* what C26 says of the effective sample size of the last call
ESSAsClaimed ==
    LET ess == weight_distribution.effective_sample_size
        n == Cardinality(PresentWeights)
    IN  /\ IsZero(SumSquaresPresent) => ess = NoNumber
        /\ ~IsZero(SumSquaresPresent) => IsKishQuotient(ess, SumPresent, SumSquaresPresent)
        /\ NonNegativeSomePositive =>
              /\ Less(Rat(0, 1), ess) /\ LessEq(ess, Rat(n, 1))
              /\ ess = Rat(n, 1) <=>
                    \A i \in PresentWeights : \A j \in PresentWeights :
                        weights.data[i] = weights.data[j]

\* C26: compute_weight_distribution returns effective_sample_size =
\* (sum of w)^2 / (sum of w^2) over the non-missing weights, and null when
\* the sum of w^2 is 0; for non-negative weights with at least one positive
\* weight, 0 < ESS <= n, with ESS = n exactly when all weights are equal and
\* ESS < n otherwise.
C26_EffectiveSampleSize == DistributionComputed => ESSAsClaimed

\* the same on weights that are all finite
ESSOfFiniteWeights ==
    (DistributionComputed /\ \A i \in PresentWeights : IsFinite(weights.data[i]))
        => ESSAsClaimed

\* the two examples: [1, 1, 1, 1] has ESS 4, [1, 1, 1, 97] has ESS
\* 100^2 / 9412 = 2500 / 2353, near 1.06
ESSOfExamples ==
    DistributionComputed =>
        /\ weights.data = <<Rat(1, 1), Rat(1, 1), Rat(1, 1), Rat(1, 1)>> =>
              weight_distribution.effective_sample_size = Rat(4, 1)
        /\ weights.data = <<Rat(1, 1), Rat(1, 1), Rat(1, 1), Rat(97, 1)>> =>
              weight_distribution.effective_sample_size = Rat(2500, 2353)

\* the unequal example was computed
ESSOfUnequalExampleComputed ==
    /\ DistributionComputed
    /\ weights.data = <<Rat(1, 1), Rat(1, 1), Rat(1, 1), Rat(97, 1)>>
    /\ weight_distribution.effective_sample_size = [k |-> "fin", n |-> 2500, d |-> 2353]

----------------------------------------------------------------------------
(* The warning accumulator: one list object bound to a module global *)

\* handing out the list object itself:
ListAlias(h, ref) == [shared |-> TRUE, ref |-> ref, items |-> <<>>]

\* _warning_accumulator.copy(): a new list with the items list ref has now
ListCopy(h, ref) == [shared |-> FALSE, ref |-> 0, items |-> h[ref]]

\* what a list a caller holds contains, given the list objects as they are
ItemsOf(h, r) == IF r.shared THEN h[r.ref] ELSE r.items

\* get_accumulated_warnings(): a copy of the list the global is bound to
get_accumulated_warnings(h, g) == ListCopy(h, g)

----------------------------------------------------------------------------
(* Estimators: summary() and the estimate operations *)

\* IndividualOutcomeEstimator.__init__: the two arguments are stored, nothing
\* is tested
IndividualOutcomeEstimator(l) ==
    [NoEstimator EXCEPT !.built = "constructed", !.cls = "IndividualOutcomeEstimator",
                        !.attrs = {"learner", "predict_proba"}]

\* hasattr(learner, name) for the attributes a trained learner may carry
LearnerHasAttr(l, name) ==
    IF name = "classes_" THEN l.classes_ # Absent ELSE name \in l.marks

\* the attributes of the wrapped learner summary() takes as fitted markers,
\* in the order of the `or`
LearnerMarkers == <<"classes_", "coef_", "_is_fitted">>

\* is_fitted of summary(): learner_ on the estimator decides when it is
\* there, otherwise the markers of the wrapped learner do
summary_is_fitted(est, l) ==
    IF "learner_" \in est.attrs THEN est.learner_ # "None"
    ELSE IF "learner" \in est.attrs
      THEN \E i \in 1..Len(LearnerMarkers) : LearnerHasAttr(l, LearnerMarkers[i])
    ELSE FALSE

\* _infer_outcome_type(): learner_ is the wrapped learner after fit
infer_outcome_type(est, l) ==
    IF "learner_" \notin est.attrs THEN "unknown"
    ELSE IF LearnerHasAttr(l, "classes_") \/ LearnerHasAttr(l, "n_classes_")
      THEN "classification"
    ELSE IF LearnerHasAttr(l, "coef_") THEN "regression"
    ELSE IF l.hint \in {"classifier", "logistic"} THEN "classification"
    ELSE IF l.hint \in {"regressor", "regression"} THEN "regression"
    ELSE "unknown"

\* summary(): getattr(self, name, None) is modelled by a has_ flag and a
\* value; `on` is the estimator as it was when summary() looked at it
summary(est, l, h, g) ==
    LET fitted == summary_is_fitted(est, l)
        tv == "treatment_values_" \in est.attrs
        ns == "n_samples_" \in est.attrs
    IN  [status |-> "returned", is_fitted |-> fitted,
         treatment_values |-> IF tv THEN est.treatment_values_ ELSE <<>>,
         n_samples |-> IF ns THEN est.n_samples_ ELSE 0,
         has_treatment_values |-> tv, has_n_samples |-> ns,
         outcome_type |-> IF fitted THEN infer_outcome_type(est, l) ELSE "unknown",
         warnings |-> get_accumulated_warnings(h, g), on |-> est]

NoAggregate == [status |-> "none", exc |-> "none", named |-> "none", value |-> None]

\* _aggregate_population_outcome(y, agg_func): y.mean() or y.median(); a
\* Series has both, a numpy scalar has mean() only, a Python number neither
aggregate_population_outcome(o, agg_func) ==
    IF agg_func = "mean"
      THEN IF o.kind = "Series"
             THEN [NoAggregate EXCEPT !.status = "returned",
                                      !.value = Scalar("np.float64", MeanOf(o.values))]
           ELSE IF o.ty \in {"np.float64", "np.int64"}
             THEN [NoAggregate EXCEPT !.status = "returned",
                                      !.value = Scalar("np.float64", o.values[1])]
           ELSE [NoAggregate EXCEPT !.status = "raised", !.exc = "AttributeError"]
    ELSE IF agg_func = "median"
      THEN IF o.kind = "Series"
             THEN [NoAggregate EXCEPT !.status = "returned",
                                      !.value = Scalar("np.float64", MedianOf(o.values))]
           ELSE [NoAggregate EXCEPT !.status = "raised", !.exc = "AttributeError"]
    ELSE [NoAggregate EXCEPT !.status = "raised", !.exc = "LookupError",
                             !.named = agg_func]

\* an estimate operation that ended by raising before any effect was computed
EstimateRaised(op, agg, est, exc, named, missing) ==
    [NoEstimate EXCEPT !.op = op, !.agg = agg, !.status = "raised", !.exc = exc,
                       !.named = named, !.missing = missing, !.on = est]

\* an estimate operation that went as far as calculate_effect on (o1, o2)
EstimateDelegated(op, agg, est, o1, o2, et) ==
    LET eff == calculate_effect(o1, o2, et)
    IN  [NoEstimate EXCEPT !.op = op, !.agg = agg, !.status = eff.status,
                           !.exc = eff.exc, !.computed = TRUE,
                           !.outcomes = <<o1, o2>>, !.effect = eff, !.on = est]

\* EffectEstimator.estimate_effect(outcome_1, outcome_2, effect_types)
estimate_effect(est, o1, o2, et) ==
    EstimateDelegated("estimate_effect", "none", est, o1, o2, et)

\* IndividualOutcomeEstimator.estimate_effect(outcome1, outcome2, agg,
\* effect_types): both outcomes are reduced by the default aggregator when
\* agg is "population", and passed on as they are for every other agg
estimate_effect_aggregated(est, o1, o2, agg, et) ==
    IF agg = "population"
      THEN LET a1 == aggregate_population_outcome(o1, "mean")
               a2 == aggregate_population_outcome(o2, "mean")
           IN  IF a1.status = "raised"
                 THEN EstimateRaised("estimate_effect", agg, est, a1.exc, a1.named, <<>>)
               ELSE IF a2.status = "raised"
                 THEN EstimateRaised("estimate_effect", agg, est, a2.exc, a2.named, <<>>)
               ELSE EstimateDelegated("estimate_effect", agg, est, a1.value, a2.value, et)
    ELSE EstimateDelegated("estimate_effect", agg, est, o1, o2, et)

\* compute_weights of a concrete weight estimator: the fitted state is
\* checked first; the weights themselves are those of compute_propensity_weights
compute_weights(est) ==
    LET chk == check_is_fitted(est)
    IN  IF chk.status = "raised"
          THEN EstimateRaised("compute_weights", "none", est, chk.exc, "none", chk.missing)
          ELSE [NoEstimate EXCEPT !.op = "compute_weights", !.status = "returned",
                                  !.computed = TRUE, !.on = est]

\* the warning estimate_population_outcome issues when y is given
UnusedOutcomeWarning == [category |-> "UserWarning", n_missing |-> 0]

\* IndividualOutcomeEstimator.estimate_population_outcome(X, a, y, agg_func=...):
\* estimate_individual_outcome of a concrete estimator checks the fitted
\* state and predicts one column of outcomes per treatment value (cols);
\* every column is then reduced by agg_func
estimate_population_outcome(est, cols, agg_func) ==
    LET chk == check_is_fitted(est)
        agg == [j \in 1..Len(cols) |-> aggregate_population_outcome(cols[j], agg_func)]
    IN  IF chk.status = "raised"
          THEN EstimateRaised("estimate_population_outcome", agg_func, est,
                              chk.exc, "none", chk.missing)
        ELSE IF \E j \in 1..Len(cols) : agg[j].status = "raised"
          THEN LET k == CHOOSE j \in 1..Len(cols) :
                           /\ agg[j].status = "raised"
                           /\ \A i \in 1..(j - 1) : agg[i].status # "raised"
               IN  EstimateRaised("estimate_population_outcome", agg_func, est,
                                  agg[k].exc, agg[k].named, <<>>)
        ELSE [NoEstimate EXCEPT !.op = "estimate_population_outcome", !.agg = agg_func,
                                !.status = "returned", !.computed = TRUE,
                                !.outcomes = [j \in 1..Len(cols) |-> agg[j].value],
                                !.on = est]

----------------------------------------------------------------------------
(* Specification of the estimator queries: construct, fit, then ask *)

\* learners: a logistic classifier untrained and trained beforehand, a linear
\* regressor, a custom model that marks itself with _is_fitted, a custom
\* classifier that leaves no recognized marker, and a forest regressor
QueryLearners ==
    {[NoLearner EXCEPT !.predict_proba = TRUE, !.decision_function = TRUE,
                       !.sets_classes = TRUE, !.sets_marks = {"coef_"},
                       !.hint = "logistic"],
     [NoLearner EXCEPT !.predict_proba = TRUE, !.decision_function = TRUE,
                       !.sets_classes = TRUE, !.sets_marks = {"coef_"},
                       !.hint = "logistic", !.fitted = TRUE,
                       !.classes_ = BinaryClasses, !.marks = {"coef_"}],
     [NoLearner EXCEPT !.sets_marks = {"coef_"}, !.hint = "regression"],
     [NoLearner EXCEPT !.predict_proba = TRUE, !.sets_marks = {"_is_fitted"}],
     [NoLearner EXCEPT !.predict_proba = TRUE, !.hint = "classifier"],
     [NoLearner EXCEPT !.sets_marks = {"n_classes_"}, !.hint = "regressor"]}

\* treatment vectors for fit: both levels, and one with a missing entry
QueryTreatments(idx) ==
    {Series(idx, [i \in 1..Len(idx) |-> IF i % 2 = 1 THEN "ctl" ELSE "trt"]),
     Series(idx, [i \in 1..Len(idx) |-> IF i = 1 THEN NA ELSE "trt"])}

\* outcomes of three samples whose mean and median differ, and scalars
SkewedOutcome == Vector(RangeIndex(3), <<Rat(0, 1), Rat(0, 1), Rat(3, 2)>>)
EvenOutcome == Vector(RangeIndex(3), <<Rat(1, 2), Rat(1, 1), Rat(0, 1)>>)
ZeroOutcome == Vector(RangeIndex(3), <<Rat(0, 1), Rat(0, 1), Rat(0, 1)>>)

QueryOutcomePairs ==
    {<<SkewedOutcome, EvenOutcome>>, <<EvenOutcome, ZeroOutcome>>,
     <<Scalar("float", Rat(3, 5)), Scalar("float", Rat(3, 10))>>,
     <<Scalar("np.float64", Rat(3, 5)), Scalar("np.float64", Rat(3, 10))>>}

QueryEffectTypes == {OneName("diff"), ListOfNames(<<"diff", "ratio">>)}

\* the values given as agg to estimate_effect and as agg_func to
\* estimate_population_outcome
AggChoices == {"population", "individual", "mean", "median", "mode"}
AggFuncChoices == {"mean", "median", "mode"}

InitQueries ==
    /\ pc = "estimator" /\ call = "none"
    /\ learner \in QueryLearners
    /\ X = DataFrame(RangeIndex(MaxFitLen))
    /\ a \in QueryTreatments(RangeIndex(MaxFitLen))
    /\ y = None
    /\ outcome = NoOutcome /\ emitted = <<>>
    /\ estimator = NoEstimator
    /\ extracted = NoExtract /\ fitted_check = NoCheck
    /\ propensity_matrix = NoMatrix
    /\ ClipIdle /\ WeightsIdle
    /\ \E pair \in QueryOutcomePairs : outcome_1 = pair[1] /\ outcome_2 = pair[2]
    /\ effect_types \in QueryEffectTypes
    /\ effect = NoEffect
    /\ ReportsIdle
    /\ QueriesIdle
    /\ AccumulatorIdle

Construct_IndividualOutcomeEstimator ==
    /\ pc = "estimator" /\ estimator.built = "none"
    /\ estimator' = IndividualOutcomeEstimator(learner)
    /\ call' = "IndividualOutcomeEstimator"
    /\ UNCHANGED <<pc, gateVars, propensity_matrix, clipVars, weightVars, effectVars,
                   learner, extracted, fitted_check, reportVars, queryVars,
                   accumulatorVars>>

Call_summary ==
    /\ pc = "estimator" /\ estimator.built = "constructed"
    /\ summary_out' = summary(estimator, learner, heap, warning_accumulator)
    /\ call' = "summary" /\ pc' = "asked"
    /\ UNCHANGED <<gateVars, propensity_matrix, clipVars, weightVars, effectVars,
                   estimatorVars, reportVars, estimate, accumulatorVars>>

\* estimate_effect of a weight estimator is EffectEstimator's own
Call_estimate_effect ==
    /\ pc = "estimator" /\ estimator.built = "constructed"
    /\ estimator.cls = "PropensityEstimator"
    /\ estimate' = estimate_effect(estimator, outcome_1, outcome_2, effect_types)
    /\ call' = "estimate_effect" /\ pc' = "asked"
    /\ UNCHANGED <<gateVars, propensity_matrix, clipVars, weightVars, effectVars,
                   estimatorVars, reportVars, summary_out, accumulatorVars>>

Call_estimate_effect_aggregated ==
    /\ pc = "estimator" /\ estimator.built = "constructed"
    /\ estimator.cls = "IndividualOutcomeEstimator"
    /\ \E agg \in AggChoices :
          estimate' = estimate_effect_aggregated(estimator, outcome_1, outcome_2,
                                                 agg, effect_types)
    /\ call' = "estimate_effect" /\ pc' = "asked"
    /\ UNCHANGED <<gateVars, propensity_matrix, clipVars, weightVars, effectVars,
                   estimatorVars, reportVars, summary_out, accumulatorVars>>

Call_compute_weights ==
    /\ pc = "estimator" /\ estimator.built = "constructed"
    /\ estimator.cls = "PropensityEstimator"
    /\ estimate' = compute_weights(estimator)
    /\ call' = "compute_weights" /\ pc' = "asked"
    /\ UNCHANGED <<gateVars, propensity_matrix, clipVars, weightVars, effectVars,
                   estimatorVars, reportVars, summary_out, accumulatorVars>>

\* estimate_population_outcome(X, a, y, agg_func=...): the warning about an
\* unused y comes first; the predicted columns are the two outcomes when
\* they are vectors
Call_estimate_population_outcome ==
    /\ pc = "estimator" /\ estimator.built = "constructed"
    /\ estimator.cls = "IndividualOutcomeEstimator"
    /\ outcome_1.kind = "Series" /\ outcome_2.kind = "Series"
    /\ \E agg_func \in AggFuncChoices, with_y \in BOOLEAN :
          /\ estimate' = estimate_population_outcome(estimator, <<outcome_1, outcome_2>>,
                                                     agg_func)
          /\ emitted' = IF with_y THEN Append(emitted, UnusedOutcomeWarning) ELSE emitted
    /\ call' = "estimate_population_outcome" /\ pc' = "asked"
    /\ UNCHANGED <<X, a, y, outcome, propensity_matrix, clipVars, weightVars, effectVars,
                   estimatorVars, reportVars, summary_out, accumulatorVars>>

NextQueries ==
    \/ Construct_PropensityEstimator
    \/ Construct_IndividualOutcomeEstimator
    \/ Call_fit
    \/ Call_check_is_fitted
    \/ Call_summary
    \/ Call_estimate_effect
    \/ Call_estimate_effect_aggregated
    \/ Call_compute_weights
    \/ Call_estimate_population_outcome

SpecQueries == InitQueries /\ [][NextQueries]_vars

----------------------------------------------------------------------------
(* Specification of the warning accumulator used by one thread *)

\* the messages callers accumulate
Messages == {"extreme weights", "low overlap"}

\* _warning_accumulator.append(message) on list ref
AppendTo(h, ref, msg) == [h EXCEPT ![ref] = Append(@, msg)]

\* number of items in all lists together
RECURSIVE TotalLen(_)
TotalLen(h) == IF h = <<>> THEN 0 ELSE Len(Head(h)) + TotalLen(Tail(h))

\* threads that loaded the global and have not appended yet
Loaded == {t \in DOMAIN threads : threads[t].at = "loaded"}

\* accumulator calls made so far: appends done or under way, clears, reads
OpsDone == TotalLen(heap) + Cardinality(Loaded) + (Len(heap) - 1) + Len(held)

\* the two estimator instances of the process that are asked for summaries
InstanceLearner ==
    [NoLearner EXCEPT !.predict_proba = TRUE, !.sets_classes = TRUE, !.hint = "logistic"]
Instances == {PropensityEstimator(InstanceLearner), IndividualOutcomeEstimator(InstanceLearner)}

\* a list handed to a caller, with the log as it was at that moment
Handed(who, list) == [by |-> who, list |-> list, expected |-> log]

InitAccumulator ==
    /\ pc = "accumulator" /\ call = "none"
    /\ propensity_matrix = NoMatrix
    /\ GateIdle /\ ClipIdle /\ WeightsIdle /\ EffectIdle /\ EstimatorIdle
    /\ ReportsIdle /\ QueriesIdle /\ AccumulatorIdle

Call_accumulate_warning ==
    /\ pc = "accumulator" /\ OpsDone < MaxOps
    /\ \E message \in Messages :
          /\ heap' = AppendTo(heap, warning_accumulator, message)
          /\ log' = Append(log, message)
    /\ call' = "accumulate_warning"
    /\ UNCHANGED <<pc, gateVars, propensity_matrix, clipVars, weightVars, effectVars,
                   estimatorVars, reportVars, queryVars,
                   warning_accumulator, held, threads>>

\* clear_accumulated_warnings(): the global is bound to a new empty list;
\* the list it was bound to is left as it is
Call_clear_accumulated_warnings ==
    /\ pc = "accumulator" /\ OpsDone < MaxOps
    /\ heap' = Append(heap, <<>>)
    /\ warning_accumulator' = Len(heap) + 1
    /\ log' = <<>>
    /\ call' = "clear_accumulated_warnings"
    /\ UNCHANGED <<pc, gateVars, propensity_matrix, clipVars, weightVars, effectVars,
                   estimatorVars, reportVars, queryVars, held, threads>>

Call_get_accumulated_warnings ==
    /\ pc = "accumulator" /\ OpsDone < MaxOps
    /\ held' = Append(held, Handed("caller",
                                   get_accumulated_warnings(heap, warning_accumulator)))
    /\ call' = "get_accumulated_warnings"
    /\ UNCHANGED <<pc, gateVars, propensity_matrix, clipVars, weightVars, effectVars,
                   estimatorVars, reportVars, queryVars,
                   heap, warning_accumulator, log, threads>>

\* summary() of one of the instances: its 'warnings' entry is kept
Call_summary_of_instance ==
    /\ pc = "accumulator" /\ OpsDone < MaxOps
    /\ \E est \in Instances :
          held' = Append(held, Handed(est.cls,
                     summary(est, InstanceLearner, heap, warning_accumulator).warnings))
    /\ call' = "summary"
    /\ UNCHANGED <<pc, gateVars, propensity_matrix, clipVars, weightVars, effectVars,
                   estimatorVars, reportVars, queryVars,
                   heap, warning_accumulator, log, threads>>

NextAccumulator ==
    \/ Call_accumulate_warning
    \/ Call_clear_accumulated_warnings
    \/ Call_get_accumulated_warnings
    \/ Call_summary_of_instance

SpecAccumulator == InitAccumulator /\ [][NextAccumulator]_vars

----------------------------------------------------------------------------
(* Specification of the warning accumulator used by several threads *)

IdleThread == [at |-> "idle", ref |-> 0, message |-> "none"]

ThreadIds == 1..NThreads

InitThreads ==
    /\ pc = "threads" /\ call = "none"
    /\ propensity_matrix = NoMatrix
    /\ GateIdle /\ ClipIdle /\ WeightsIdle /\ EffectIdle /\ EstimatorIdle
    /\ ReportsIdle /\ QueriesIdle
    /\ heap = << <<>> >> /\ warning_accumulator = 1
    /\ held = <<>> /\ log = <<>>
    /\ threads = [t \in ThreadIds |-> IdleThread]

\* accumulate_warning, first step: the thread loads the global, that is the
\* reference to the list the global is bound to now
Load_accumulate_warning ==
    /\ pc = "threads" /\ OpsDone < MaxOps
    /\ \E t \in ThreadIds, message \in Messages :
          /\ threads[t].at = "idle"
          /\ threads' = [threads EXCEPT ![t] = [at |-> "loaded",
                                                ref |-> warning_accumulator,
                                                message |-> message]]
    /\ call' = "accumulate_warning"
    /\ UNCHANGED <<pc, gateVars, propensity_matrix, clipVars, weightVars, effectVars,
                   estimatorVars, reportVars, queryVars,
                   heap, warning_accumulator, held, log>>

\* accumulate_warning, second step: the thread appends to the list it
\* loaded, and the call returns
Append_accumulate_warning ==
    /\ pc = "threads"
    /\ \E t \in ThreadIds :
          /\ threads[t].at = "loaded"
          /\ heap' = AppendTo(heap, threads[t].ref, threads[t].message)
          /\ log' = Append(log, threads[t].message)
          /\ threads' = [threads EXCEPT ![t] = IdleThread]
    /\ call' = "accumulate_warning"
    /\ UNCHANGED <<pc, gateVars, propensity_matrix, clipVars, weightVars, effectVars,
                   estimatorVars, reportVars, queryVars, warning_accumulator, held>>

\* clear_accumulated_warnings by an idle thread: the global is rebound to a
\* fresh list, and the call returns
Rebind_clear_accumulated_warnings ==
    /\ pc = "threads" /\ OpsDone < MaxOps
    /\ \E t \in ThreadIds : threads[t].at = "idle"
    /\ heap' = Append(heap, <<>>)
    /\ warning_accumulator' = Len(heap) + 1
    /\ log' = <<>>
    /\ call' = "clear_accumulated_warnings"
    /\ UNCHANGED <<pc, gateVars, propensity_matrix, clipVars, weightVars, effectVars,
                   estimatorVars, reportVars, queryVars, held, threads>>

\* get_accumulated_warnings by an idle thread
Read_get_accumulated_warnings ==
    /\ pc = "threads" /\ OpsDone < MaxOps
    /\ \E t \in ThreadIds :
          /\ threads[t].at = "idle"
          /\ held' = Append(held, Handed(t, get_accumulated_warnings(heap,
                                                        warning_accumulator)))
    /\ call' = "get_accumulated_warnings"
    /\ UNCHANGED <<pc, gateVars, propensity_matrix, clipVars, weightVars, effectVars,
                   estimatorVars, reportVars, queryVars,
                   heap, warning_accumulator, log, threads>>

NextThreads ==
    \/ Load_accumulate_warning
    \/ Append_accumulate_warning
    \/ Rebind_clear_accumulated_warnings
    \/ Read_get_accumulated_warnings

SpecThreads == InitThreads /\ [][NextThreads]_vars

----------------------------------------------------------------------------
(* Specification of the warning functions *)

\* a warning issued through warnings.warn(msg, category)
Warning(category, message) == [category |-> category, n_missing |-> 0, message |-> message]

\* warn_extreme_weights(weight_stats): always warns
warn_extreme_weights(weight_stats) ==
    <<Warning("ExtremeWeightWarning", "Extreme weights detected")>>

\* warn_low_overlap(overlap_stats)
warn_low_overlap(overlap_stats) ==
    IF ~overlap_stats.has_overlap
      THEN <<Warning("PositivityViolationWarning", "Severe positivity violation")>>
    ELSE IF \E t \in DOMAIN overlap_stats.pct_in_overlap :
                Below(overlap_stats.pct_in_overlap[t], Rat(50, 1))
      THEN <<Warning("LowOverlapWarning", "Low overlap warning")>>
    ELSE <<>>

\* warn_propensity_extremity(propensity_stats)
warn_propensity_extremity(propensity_stats) ==
    IF propensity_stats.n_extreme_low > 0 \/ propensity_stats.n_extreme_high > 0
      THEN <<Warning("PositivityViolationWarning", "Propensity score extremity")>>
      ELSE <<>>

\* warn_single_treatment_dominance(n_samples_per_treatment): one warning,
\* for the first group that is more than 80% of the sample
warn_single_treatment_dominance(counts) ==
    LET total == SumOf([t \in 1..Len(counts) |-> Rat(counts[t], 1)]).n
    IN  IF \E t \in 1..Len(counts) : total > 0 /\ 100 * counts[t] > 80 * total
          THEN <<Warning("SingleTreatmentDominanceWarning", "Single treatment dominance")>>
          ELSE <<>>

\* warn_missing_values(n_missing, n_total)
warn_missing_values(n_missing, n_total) ==
    IF n_missing > 0
      THEN <<Warning("MissingValuesWarning", "Missing values detected")>>
      ELSE <<>>

\* warn_learner_interface(method_name, learner_type): always warns
warn_learner_interface(method_name, learner_type) ==
    <<Warning("LearnerInterfaceWarning", "Learner does not have method")>>

\* get_weight_diagnostics(weights): the distribution, and the warning issued
\* when it counts extreme weights
get_weight_diagnostics(wts) ==
    LET wd == compute_weight_distribution(wts)
    IN  [result |-> wd,
         emitted |-> IF wd.status = "returned" /\ wd.n_extreme > 0
                       THEN warn_extreme_weights(wd) ELSE <<>>]

\* the weights an estimator is asked to diagnose: unit weights with one
\* outlier, weights close together, and none
DiagnosedWeights == {BulkWeights, <<Rat(1, 1), Rat(1, 1), Rat(2, 1)>>, <<>>}

OverlapStatsChoices ==
    {[has_overlap |-> FALSE, pct_in_overlap |-> <<Rat(0, 1), Rat(100, 1)>>],
     [has_overlap |-> TRUE, pct_in_overlap |-> <<Rat(40, 1), Rat(100, 1)>>],
     [has_overlap |-> TRUE, pct_in_overlap |-> <<Rat(50, 1), Rat(100, 1)>>]}

PropensityStatsChoices ==
    {[n_extreme_low |-> lo, n_extreme_high |-> hi] : lo \in {0, 1}, hi \in {0, 2}}

GroupCountChoices == {<<9, 1>>, <<1, 9>>, <<4, 1>>, <<0, 0>>}

MissingCountChoices == {<<0, 4>>, <<1, 4>>, <<2, 0>>}

InitWarnings ==
    /\ pc = "warnings" /\ call = "none"
    /\ learner = InstanceLearner
    /\ estimator = PropensityEstimator(InstanceLearner)
    /\ extracted = NoExtract /\ fitted_check = NoCheck
    /\ \E vals \in DiagnosedWeights : weights = WeightSeries(RangeIndex(Len(vals)), vals)
    /\ treatment_assignment = None
    /\ treatment_values = NoLevels
    /\ use_stabilized = FALSE /\ treatment_prevalence = NoPrevalence
    /\ propensity_matrix = NoMatrix
    /\ GateIdle /\ ClipIdle /\ EffectIdle /\ ReportsIdle
    /\ QueriesIdle /\ AccumulatorIdle

Call_warn_extreme_weights ==
    /\ pc = "warnings" /\ Len(emitted) < MaxWarnings
    /\ emitted' = emitted \o warn_extreme_weights(weight_distribution)
    /\ call' = "warn_extreme_weights"
    /\ UNCHANGED <<pc, X, a, y, outcome, propensity_matrix, clipVars, weightVars,
                   effectVars, estimatorVars, reportVars, queryVars, accumulatorVars>>

Call_warn_low_overlap ==
    /\ pc = "warnings" /\ Len(emitted) < MaxWarnings
    /\ \E overlap_stats \in OverlapStatsChoices :
          emitted' = emitted \o warn_low_overlap(overlap_stats)
    /\ call' = "warn_low_overlap"
    /\ UNCHANGED <<pc, X, a, y, outcome, propensity_matrix, clipVars, weightVars,
                   effectVars, estimatorVars, reportVars, queryVars, accumulatorVars>>

Call_warn_propensity_extremity ==
    /\ pc = "warnings" /\ Len(emitted) < MaxWarnings
    /\ \E propensity_stats \in PropensityStatsChoices :
          emitted' = emitted \o warn_propensity_extremity(propensity_stats)
    /\ call' = "warn_propensity_extremity"
    /\ UNCHANGED <<pc, X, a, y, outcome, propensity_matrix, clipVars, weightVars,
                   effectVars, estimatorVars, reportVars, queryVars, accumulatorVars>>

Call_warn_single_treatment_dominance ==
    /\ pc = "warnings" /\ Len(emitted) < MaxWarnings
    /\ \E counts \in GroupCountChoices :
          emitted' = emitted \o warn_single_treatment_dominance(counts)
    /\ call' = "warn_single_treatment_dominance"
    /\ UNCHANGED <<pc, X, a, y, outcome, propensity_matrix, clipVars, weightVars,
                   effectVars, estimatorVars, reportVars, queryVars, accumulatorVars>>

Call_warn_missing_values ==
    /\ pc = "warnings" /\ Len(emitted) < MaxWarnings
    /\ \E counts \in MissingCountChoices :
          emitted' = emitted \o warn_missing_values(counts[1], counts[2])
    /\ call' = "warn_missing_values"
    /\ UNCHANGED <<pc, X, a, y, outcome, propensity_matrix, clipVars, weightVars,
                   effectVars, estimatorVars, reportVars, queryVars, accumulatorVars>>

Call_warn_learner_interface ==
    /\ pc = "warnings" /\ Len(emitted) < MaxWarnings
    /\ emitted' = emitted \o warn_learner_interface("predict_proba", "SVC")
    /\ call' = "warn_learner_interface"
    /\ UNCHANGED <<pc, X, a, y, outcome, propensity_matrix, clipVars, weightVars,
                   effectVars, estimatorVars, reportVars, queryVars, accumulatorVars>>

Call_get_weight_diagnostics ==
    /\ pc = "warnings" /\ Len(emitted) < MaxWarnings
    /\ weight_distribution' = get_weight_diagnostics(weights).result
    /\ emitted' = emitted \o get_weight_diagnostics(weights).emitted
    /\ call' = "get_weight_diagnostics"
    /\ UNCHANGED <<pc, X, a, y, outcome, propensity_matrix, clipVars, weightVars,
                   effectVars, estimatorVars, propensity_scores, overlap_diagnostic,
                   queryVars, accumulatorVars>>

\* summary() of the estimator after the warnings
Call_summary_after_warnings ==
    /\ pc = "warnings"
    /\ summary_out' = summary(estimator, learner, heap, warning_accumulator)
    /\ call' = "summary" /\ pc' = "asked"
    /\ UNCHANGED <<gateVars, propensity_matrix, clipVars, weightVars, effectVars,
                   estimatorVars, reportVars, estimate, accumulatorVars>>

NextWarnings ==
    \/ Call_warn_extreme_weights
    \/ Call_warn_low_overlap
    \/ Call_warn_propensity_extremity
    \/ Call_warn_single_treatment_dominance
    \/ Call_warn_missing_values
    \/ Call_warn_learner_interface
    \/ Call_get_weight_diagnostics
    \/ Call_summary_after_warnings

SpecWarnings == InitWarnings /\ [][NextWarnings]_vars

----------------------------------------------------------------------------
(* The components together: a caller uses one of them *)

Init ==
    \/ InitGate \/ InitClip \/ InitWeights \/ InitEffect \/ InitEstimator
    \/ InitOverlap \/ InitDistribution
    \/ InitQueries \/ InitAccumulator \/ InitThreads \/ InitWarnings

Next ==
    \/ NextGate \/ NextClip \/ NextWeights \/ NextEffect \/ NextEstimator
    \/ NextOverlap \/ NextDistribution
    \/ NextQueries \/ NextAccumulator \/ NextThreads \/ NextWarnings

Spec == Init /\ [][Next]_vars

----------------------------------------------------------------------------
(* Properties of weight computation (checked under SpecWeights) *)

WeightsCalled == call = "compute_propensity_weights"

\* the propensity of sample i for its own observed treatment
OwnPropensity(i) ==
    LET j == CHOOSE c \in 1..Len(propensity_matrix.columns) :
                 propensity_matrix.columns[c] = treatment_assignment.values[i]
    IN  propensity_matrix.data[i][j]

\* w is the reciprocal of p: w * p = 1, and inf where p = 0
IsReciprocal(w, p) ==
    IF p.n = 0 THEN w.k = "inf"
    ELSE w.k = "fin" /\ w.n * p.n = w.d * p.d

Samples == 1..Len(treatment_assignment.values)

\* C5: with use_stabilized=False and treatment_values=None the result is a
\* vector keyed by the sample identifiers of the inputs whose entry for each
\* sample i is 1 / P[i, a_i], the column being that sample's own treatment.
C5_UnstabilizedWeightIsInversePropensity ==
    (WeightsCalled /\ ~use_stabilized /\ treatment_values.form = "None") =>
        /\ weights.status = "returned" /\ weights.shape = "Series"
        /\ weights.index = treatment_assignment.index
        /\ weights.index = propensity_matrix.index
        /\ Len(weights.data) = Len(treatment_assignment.values)
        /\ \A i \in Samples : IsReciprocal(weights.data[i], OwnPropensity(i))

\* C5 witness: non-default identifiers, two samples with different
\* treatments whose own propensities differ from those of the other column
C5_Witness ==
    /\ WeightsCalled /\ ~use_stabilized /\ treatment_values.form = "None"
    /\ propensity_matrix.index = <<6, 5>>
    /\ treatment_assignment.values[1] # treatment_assignment.values[2]
    /\ OwnPropensity(1) = [k |-> "fin", n |-> 1, d |-> 4]
    /\ OwnPropensity(2) = [k |-> "fin", n |-> 1, d |-> 3]
    /\ weights.data = <<[k |-> "fin", n |-> 4, d |-> 1], [k |-> "fin", n |-> 3, d |-> 1]>>

\* the prevalence of level l: the supplied value, else its frequency in a
PrevalenceOf(l) ==
    IF treatment_prevalence.given
      THEN treatment_prevalence.of[l]
      ELSE LET n == Cardinality({i \in Samples : treatment_assignment.values[i] = l})
               len == Len(treatment_assignment.values)
               g == Gcd(n, len)
           IN  [k |-> "fin", n |-> n \div g, d |-> len \div g]

\* the weights the same call returns with use_stabilized=False
UnstabilizedWeights ==
    compute_propensity_weights(propensity_matrix, treatment_assignment,
                               treatment_values, FALSE, treatment_prevalence)

\* C6: with treatment_values=None, the stabilized weight of every sample i is
\* prevalence(a_i) times its unstabilized weight, prevalence being the
\* frequency of the level in a, or the supplied value when one is supplied.
C6_StabilizedIsPrevalenceTimesUnstabilized ==
    (WeightsCalled /\ use_stabilized /\ treatment_values.form = "None") =>
        /\ weights.status = "returned" /\ weights.shape = "Series"
        /\ \A i \in Samples :
              weights.data[i] =
                 Mul(PrevalenceOf(treatment_assignment.values[i]), UnstabilizedWeights.data[i])

\* C6 witness: prevalence estimated from a, each level observed once in two
\* samples: propensity 1/4 gives the stabilized weight (1/2) * 4 = 2
C6_Witness ==
    /\ WeightsCalled /\ use_stabilized /\ treatment_values.form = "None"
    /\ ~treatment_prevalence.given
    /\ Len(treatment_assignment.values) = 2
    /\ treatment_assignment.values[1] # treatment_assignment.values[2]
    /\ OwnPropensity(1) = [k |-> "fin", n |-> 1, d |-> 4]
    /\ weights.data[1] = [k |-> "fin", n |-> 2, d |-> 1]

\* every entry of the result, vector or matrix
WeightEntries ==
    IF weights.shape = "Series"
      THEN {weights.data[i] : i \in 1..Len(weights.data)}
      ELSE {weights.data[p[1]][p[2]] :
              p \in (1..Len(weights.data)) \X (1..Len(weights.columns))}

\* C7: every weight returned is finite and non-negative, for every matrix
\* with entries in [0, 1] (0 and 1 included), in vector and in matrix form,
\* stabilized or not.
C7_WeightsFiniteNonNegative ==
    (WeightsCalled /\ weights.status = "returned") =>
        \A w \in WeightEntries : w.k = "fin" /\ w.n >= 0

\* every requested level is a column of the matrix
LevelsRequestedExist ==
    \A c \in 1..Len(treatment_values.levels) :
        \E j \in 1..Len(propensity_matrix.columns) :
            propensity_matrix.columns[j] = treatment_values.levels[c]

\* C8: the result is a one-weight-per-sample vector exactly when
\* treatment_values is None or a single level (of any label type), and a
\* matrix with exactly one column per requested level whenever it is a list,
\* for lists of every length >= 1.
C8_ShapeFollowsTreatmentValues ==
    (WeightsCalled /\ LevelsRequestedExist) =>
        /\ treatment_values.form \in {"None", "scalar"} =>
              (weights.status = "returned" /\ weights.shape = "Series")
        /\ (treatment_values.form = "list" /\ Len(treatment_values.levels) >= 1) =>
              /\ weights.status = "returned" /\ weights.shape = "DataFrame"
              /\ weights.columns = treatment_values.levels

\* the propensity of sample i for level l
PropensityOf(i, l) == propensity_matrix.data[i][ColumnOf(propensity_matrix, l)]

\* a stabilized call with a list of levels that comes back as a matrix
StabilizedMatrixReturned ==
    /\ WeightsCalled /\ use_stabilized
    /\ treatment_values.form = "list" /\ LevelsRequestedExist
    /\ weights.status = "returned" /\ weights.shape = "DataFrame"

\* C29: with use_stabilized=True and treatment_values a list of levels, entry
\* (i, l) of the returned weight matrix is prevalence(l) / P[i, l]: column l
\* is scaled by the prevalence of its own level, for every sample i whatever
\* its observed treatment.
C29_StabilizedMatrixScalesColumns ==
    StabilizedMatrixReturned =>
        \A i \in Samples : \A c \in 1..Len(treatment_values.levels) :
            weights.data[i][c] =
               Mul(PrevalenceOf(treatment_values.levels[c]),
                   Recip(PropensityOf(i, treatment_values.levels[c])))

\* what the stabilized matrix holds instead: row i is scaled by the
\* prevalence of sample i's observed treatment, in every column
StabilizedMatrixScalesRows ==
    StabilizedMatrixReturned =>
        \A i \in Samples : \A c \in 1..Len(treatment_values.levels) :
            weights.data[i][c] =
               Mul(PrevalenceOf(treatment_assignment.values[i]),
                   Recip(PropensityOf(i, treatment_values.levels[c])))

\* a stabilized matrix whose entry for a level the sample did not receive
\* carries the prevalence of the level it did receive: P = 1/2, supplied
\* prevalences 1/4 and 3/4, entry (1/4) * 2 in the column of prevalence 3/4
StabilizedMatrixRowScaled ==
    /\ StabilizedMatrixReturned /\ treatment_prevalence.given
    /\ Len(treatment_values.levels) = 2
    /\ treatment_values.levels = propensity_matrix.columns
    /\ treatment_assignment.values[1] = propensity_matrix.columns[1]
    /\ PrevalenceOf(propensity_matrix.columns[1]) = [k |-> "fin", n |-> 1, d |-> 4]
    /\ propensity_matrix.data[1][2] = [k |-> "fin", n |-> 1, d |-> 2]
    /\ weights.data[1][2] = [k |-> "fin", n |-> 1, d |-> 2]

----------------------------------------------------------------------------
(* Properties of the estimator queries (checked under SpecQueries) *)

\* the estimator is in the Fitted state: no default fitted marker is missing
IsFitted(est) == MissingMarkers(est) = <<>>

\* an estimate operation was asked of an estimator whose fit never completed
EstimateBeforeFit == estimate.op # "none" /\ ~estimate.on.fit_completed

\* C21: every estimate operation (estimate_effect, estimate_population_outcome,
\* compute_weights) asked of an estimator whose fit never completed fails
\* with NotFittedError naming the missing markers, computes nothing and
\* leaves the estimator Unfitted.
C21_EstimateBeforeFitFails ==
    EstimateBeforeFit =>
        /\ estimate.status = "raised" /\ estimate.exc = "NotFittedError"
        /\ estimate.missing # <<>> /\ estimate.missing = MissingMarkers(estimate.on)
        /\ ~estimate.computed
        /\ estimator = estimate.on /\ ~IsFitted(estimator)

\* the other half of C21: only a completed fit moves the estimator from
\* Unfitted to Fitted, and no operation moves it back
UnfittedToFittedOneWay ==
    [][/\ IsFitted(estimator) => IsFitted(estimator')
       /\ (~IsFitted(estimator) /\ IsFitted(estimator'))
             => (call' = "fit" /\ outcome'.status = "returned"
                 /\ estimator'.fit_completed)]_vars

\* the operations that check the fitted state do fail as C21 says
CheckedEstimateBeforeFitFails ==
    (EstimateBeforeFit /\ estimate.op # "estimate_effect") =>
        /\ estimate.status = "raised" /\ estimate.exc = "NotFittedError"
        /\ estimate.missing = <<"learner_", "treatment_values_">>
        /\ ~estimate.computed
        /\ estimator = estimate.on /\ ~IsFitted(estimator)

\* an effect estimated on an estimator that was never fit
EffectEstimatedBeforeFit ==
    /\ estimate.op = "estimate_effect" /\ estimate.on.fits = 0
    /\ estimate.status = "returned" /\ estimate.computed
    /\ estimate.effect.status = "returned"

\* a recognized fitted marker is present: learner_ on the estimator, or
\* classes_, coef_ or _is_fitted on the wrapped learner
MarkerPresent(est, l) ==
    \/ "learner_" \in est.attrs
    \/ LearnerHasAttr(l, "classes_")
    \/ LearnerHasAttr(l, "coef_")
    \/ LearnerHasAttr(l, "_is_fitted")

\* C22: summary() reports is_fitted = true iff at least one recognized
\* fitted marker is present; it reports is_fitted = false with
\* treatment_values = null and n_samples = null for an estimator never fit,
\* and is_fitted = true after fit.
C22_SummaryIsFitted ==
    summary_out.status = "returned" =>
        /\ summary_out.is_fitted <=> MarkerPresent(summary_out.on, learner)
        /\ ~summary_out.on.fit_completed =>
              /\ ~summary_out.is_fitted
              /\ ~summary_out.has_treatment_values
              /\ ~summary_out.has_n_samples
        /\ summary_out.on.fit_completed => summary_out.is_fitted

\* what summary() does report: the marker rule, is_fitted after fit, and
\* the fitted state as null before fit
SummaryFollowsMarkers ==
    summary_out.status = "returned" =>
        /\ summary_out.is_fitted <=> MarkerPresent(summary_out.on, learner)
        /\ ~summary_out.on.fit_completed =>
              /\ ~summary_out.has_treatment_values
              /\ ~summary_out.has_n_samples
              /\ summary_out.outcome_type = "unknown"
        /\ summary_out.on.fit_completed =>
              /\ summary_out.is_fitted
              /\ summary_out.treatment_values = summary_out.on.treatment_values_
              /\ summary_out.n_samples = MaxFitLen

\* summary() of an estimator never fit that wraps a learner trained beforehand
SummaryOfNeverFitSaysFitted ==
    /\ summary_out.status = "returned" /\ summary_out.on.fits = 0
    /\ summary_out.is_fitted /\ ~summary_out.has_treatment_values

\* estimate_effect of an IndividualOutcomeEstimator was given per-sample outcomes
AggregatedEstimate ==
    /\ estimate.op = "estimate_effect" /\ estimate.agg # "none"
    /\ outcome_1.kind = "Series" /\ outcome_2.kind = "Series"

\* both outcomes reduced by agg_func, as calculate_effect was handed them
ReducedBy(agg_func) ==
    <<aggregate_population_outcome(outcome_1, agg_func).value,
      aggregate_population_outcome(outcome_2, agg_func).value>>

\* C23: estimate_effect of an IndividualOutcomeEstimator reduces per-sample
\* outcomes to their mean with aggregator "mean" (and by default, "population"),
\* to their median with "median", before delegating to calculate_effect, and
\* gives one scalar per effect type; "individual" keeps the samples; every
\* other aggregator value fails with a LookupError naming it.
C23_AggregatorChosen ==
    AggregatedEstimate =>
        IF estimate.agg \in {"mean", "population"}
          THEN /\ estimate.computed /\ estimate.outcomes = ReducedBy("mean")
               /\ estimate.effect = calculate_effect(ReducedBy("mean")[1], ReducedBy("mean")[2],
                                                     effect_types)
        ELSE IF estimate.agg = "median"
          THEN /\ estimate.computed /\ estimate.outcomes = ReducedBy("median")
               /\ estimate.effect = calculate_effect(ReducedBy("median")[1],
                                                     ReducedBy("median")[2], effect_types)
        ELSE IF estimate.agg = "individual"
          THEN estimate.computed /\ estimate.outcomes = <<outcome_1, outcome_2>>
        ELSE /\ estimate.status = "raised" /\ estimate.exc = "LookupError"
             /\ estimate.named = estimate.agg /\ ~estimate.computed

\* what estimate_effect does: "population" reduces to the mean, every other
\* value of agg hands the outcomes on as they are
AggregatesOnlyPopulation ==
    AggregatedEstimate =>
        /\ estimate.computed
        /\ estimate.outcomes =
              IF estimate.agg = "population" THEN ReducedBy("mean")
              ELSE <<outcome_1, outcome_2>>
        /\ estimate.exc # "LookupError"

\* the aggregator is chosen in estimate_population_outcome: mean, median,
\* and LookupError naming any other
PopulationOutcomeAggregator ==
    (estimate.op = "estimate_population_outcome" /\ estimate.on.fit_completed) =>
        IF estimate.agg \in {"mean", "median"}
          THEN estimate.status = "returned" /\ estimate.outcomes = ReducedBy(estimate.agg)
          ELSE /\ estimate.status = "raised" /\ estimate.exc = "LookupError"
               /\ estimate.named = estimate.agg

\* "median" given to estimate_effect: the per-sample effects come back
MedianIgnored ==
    /\ AggregatedEstimate /\ estimate.agg = "median"
    /\ estimate.status = "returned" /\ estimate.effect.shape = "DataFrame"
    /\ ReducedBy("mean") # ReducedBy("median")

\* C30: the two fitted-state detectors never disagree: on the same estimator,
\* summary() reports is_fitted = true exactly when check_is_fitted with the
\* default markers returns without raising NotFittedError.
C30_DetectorsAgree ==
    (/\ summary_out.status = "returned" /\ fitted_check.status # "none"
     /\ fitted_check.on = summary_out.on)
        => (summary_out.is_fitted <=> fitted_check.status = "returned")

\* one direction holds: an estimator that passes check_is_fitted is reported fitted
CheckedFittedIsReportedFitted ==
    (/\ summary_out.status = "returned" /\ fitted_check.status = "returned"
     /\ fitted_check.on = summary_out.on)
        => summary_out.is_fitted

\* the detectors disagreeing on an estimator never fit
DetectorsDisagree ==
    /\ summary_out.status = "returned" /\ summary_out.is_fitted
    /\ fitted_check.status = "raised" /\ fitted_check.exc = "NotFittedError"
    /\ fitted_check.on = summary_out.on /\ summary_out.on.fits = 0

----------------------------------------------------------------------------
(* Properties of the warning accumulator (checked under SpecAccumulator and
   SpecThreads) *)

\* what get_accumulated_warnings() would return now
ReadNow == ItemsOf(heap, get_accumulated_warnings(heap, warning_accumulator))

\* C24: after any sequence of accumulate_warning, clear_accumulated_warnings
\* and get_accumulated_warnings calls, get_accumulated_warnings() returns
\* exactly the messages appended since the most recent clear, in append
\* order, the empty list right after a clear; summary() of every estimator
\* instance reports that same list; and a list returned earlier still holds
\* what it held when it was returned, whatever was appended or cleared since.
C24_AccumulatorSequential ==
    /\ ReadNow = log
    /\ call = "clear_accumulated_warnings" => ReadNow = <<>>
    /\ \A i \in 1..Len(held) : ItemsOf(heap, held[i].list) = held[i].expected

\* C24 witness: two instances were reported the same two messages in append
\* order, and a clear made since has left both lists as they were
C24_Witness ==
    /\ call = "clear_accumulated_warnings" /\ ReadNow = <<>>
    /\ \E i, j \in 1..Len(held) :
          /\ held[i].by = "PropensityEstimator"
          /\ held[j].by = "IndividualOutcomeEstimator"
          /\ ItemsOf(heap, held[i].list) = <<"low overlap", "extreme weights">>
          /\ ItemsOf(heap, held[j].list) = <<"low overlap", "extreme weights">>

\* a list returned before an append does not show the appended message
SnapshotBeforeAppend ==
    /\ call = "accumulate_warning" /\ Len(log) = 2
    /\ \E i \in 1..Len(held) :
          /\ held[i].by = "caller"
          /\ Len(ItemsOf(heap, held[i].list)) = 1

\* C28: with accumulate_warning and clear_accumulated_warnings called from
\* several threads, no message is lost: every message whose
\* accumulate_warning call returned after the last clear_accumulated_warnings
\* call returned is in the list the next get_accumulated_warnings() returns.
C28_NoMessageLost ==
    \A i \in 1..Len(held) :
        \A k \in 1..Len(held[i].expected) :
            held[i].expected[k] \in Range(ItemsOf(heap, held[i].list))

\* a message lost: its accumulate_warning call returned after the only clear
\* had returned, and the next read is empty
MessageLost ==
    /\ call = "get_accumulated_warnings" /\ Len(heap) = 2
    /\ Len(log) = 1 /\ ReadNow = <<>>
    /\ heap[1] = log
    /\ held[Len(held)].expected = log
    /\ ItemsOf(heap, held[Len(held)].list) = <<>>

\* with no clear, appends of different threads all arrive
NoClearNoLoss ==
    Len(heap) = 1 => ReadNow = log

----------------------------------------------------------------------------
(* Properties of the warning functions (checked under SpecWarnings) *)

\* the 'warnings' entry of the summary
SummaryWarnings == ItemsOf(heap, summary_out.warnings)

\* C25: every warning message issued by the warning functions or through
\* get_weight_diagnostics is appended to the warning accumulator, so that it
\* is in the 'warnings' entry of every later summary() (the accumulator not
\* having been cleared in between).
C25_WarningsReachSummary ==
    summary_out.status = "returned" =>
        \A i \in 1..Len(emitted) : emitted[i].message \in Range(SummaryWarnings)

\* what the code does: the warning functions leave the accumulator alone
WarningsNeverAccumulated ==
    /\ heap = << <<>> >> /\ warning_accumulator = 1
    /\ summary_out.status = "returned" => SummaryWarnings = <<>>

\* the warning functions warn under the conditions they state
WarningsAsConditioned ==
    /\ call \in {"warn_extreme_weights", "warn_learner_interface"} => Len(emitted) >= 1
    /\ call = "get_weight_diagnostics" =>
          /\ weight_distribution = compute_weight_distribution(weights)
          /\ (weight_distribution.status = "returned" /\ weight_distribution.n_extreme > 0)
                => emitted[Len(emitted)].category = "ExtremeWeightWarning"

\* get_weight_diagnostics warned of an extreme weight, and a summary asked
\* afterwards shows no warning
ExtremeWeightsNotInSummary ==
    /\ summary_out.status = "returned" /\ SummaryWarnings = <<>>
    /\ weight_distribution.status = "returned" /\ weight_distribution.n_extreme = 1
    /\ Len(emitted) = 1 /\ emitted[1].category = "ExtremeWeightWarning"

=============================================================================
